---- MODULE Spec2Model ----
(***************************************************************************)
(* ARGO plugin runtime: the event bus (core/plugins/events.py), the hook   *)
(* pipeline (core/plugins/hooks.py), the plugin manager                    *)
(* (core/plugins/manager.py) and the part of the bootstrap that builds the *)
(* plugin manager (core/bootstrap.py).                                     *)
(*                                                                         *)
(* Each Python object is a record, each method an operator from the        *)
(* object's state and the call's arguments to the new state and the call's *)
(* outcome, and each action applies one method to the state variables.     *)
(* The specifications share one Init: SpecBus (subscription and            *)
(* dispatch), SpecHistory (the event history), SpecQuery (reading the      *)
(* history), SpecAsync (asynchronous dispatch), SpecEmit (emit, with the   *)
(* event loop running or closing), SpecThreads (publishing from several    *)
(* threads), SpecReentrant (handlers that subscribe and unsubscribe during *)
(* a dispatch), SpecOrder (one caller using every way of publishing),      *)
(* SpecHooks (the hook pipeline), SpecStats (the execution counters),      *)
(* SpecBothPaths (execute and execute_async side by side), SpecMgr (plugin *)
(* loading and the bootstrap), SpecFailedInit (plugins whose initialize    *)
(* raises), SpecRegistry (the capability registries), SpecLookup (lookup   *)
(* by file name), SpecHealth (the health sweep), SpecToggle (enabling and  *)
(* disabling) and SpecLifecycle (shutdown).                                *)
(***************************************************************************)
EXTENDS Integers, Sequences, FiniteSets, TLC

VARIABLES
    bus,        \* a stand-alone EventBus instance
    busOut,     \* what the last call on bus did (its dispatch log)
    subs,       \* number of on() calls made so far: stamps each binding
    pubs,       \* number of events created so far: stamps each Event
    recorded,   \* every event handed to _add_to_history since the last clear
    aio,        \* the emit_async calls of the event loop and the emit_sync
                \* calls of the threads under way, oldest first
    hm,         \* a stand-alone HookManager instance
    hmOut,      \* what the last call on hm did (its callback log)
    regs,       \* number of register() calls made so far
    execs,      \* number of execute()/execute_async() calls made so far
    awaiting,   \* the execute_async calls on hm suspended at an await
    managers,   \* the PluginManager instances, in creation order
    sysPlugins, \* ARGOBootstrap.plugins: 0 is None, else an index of managers
    mgrOut,     \* what the last manager or bootstrap call did
    insts       \* number of plugin instances created so far

busVars == <<bus, busOut, subs, pubs, recorded, aio>>
hookVars == <<hm, hmOut, regs, execs, awaiting>>
mgrVars == <<managers, sysPlugins, mgrOut, insts>>
vars == <<bus, busOut, subs, pubs, recorded, aio, hm, hmOut, regs, execs,
          awaiting, managers, sysPlugins, mgrOut, insts>>

(***************************************************************************)
(* Bounds of the model.                                                    *)
(***************************************************************************)
MaxSubs == 2        \* on() calls in one behaviour of SpecBus
MaxEmits == 1       \* events published in one behaviour of SpecBus
MaxHistSubs == 1    \* on() calls in one behaviour of SpecHistory
MaxPubs == 4        \* events published in one behaviour of SpecHistory
MaxHistory == 2     \* EventBus.max_history (100 in __init__), scaled down
MaxRegs == 3        \* register() calls in one behaviour
MaxExecs == 1       \* execute calls in one behaviour
MaxCounted == 3     \* execute calls in one behaviour that counts them
MaxAsyncOps == 3    \* on and emit calls of a behaviour with asynchronous dispatch
MaxThreads == 2     \* threads inside a publish call at a time
MaxObjects == 4     \* managers, plugin instances, capability records and
                    \* 'plugin_loaded' handlers created in one behaviour

(***************************************************************************)
(* Python dictionaries that the code only reads by key are functions; the  *)
(* empty dictionary is the function with the empty domain.                 *)
(***************************************************************************)
EmptyDict == [k \in {} |-> <<>>]

DictGet(d, k, default) == IF k \in DOMAIN d THEN d[k] ELSE default

DictPut(d, k, v) == [x \in (DOMAIN d) \cup {k} |-> IF x = k THEN v ELSE d[x]]

RECURSIVE RemoveFirstBy(_, _)
RemoveFirstBy(s, target) ==
    IF s = <<>> THEN <<>>
    ELSE IF Head(s).cb # target
         THEN <<Head(s)>> \o RemoveFirstBy(Tail(s), target)
         ELSE Tail(s)

RECURSIVE SelectSeqBy(_, _)
\* [x for x in s if x.cb != target]: the comprehension of off and unregister.
SelectSeqBy(s, target) ==
    IF s = <<>> THEN <<>>
    ELSE IF Head(s).cb # target
         THEN <<Head(s)>> \o SelectSeqBy(Tail(s), target)
         ELSE SelectSeqBy(Tail(s), target)

(***************************************************************************)
(* list.sort(key=priority, reverse=True).  Python's sort is stable, and    *)
(* with reverse=True elements of equal key keep their original order.      *)
(* It is computed as an insertion sort that places each element after the  *)
(* elements of greater or equal key.                                       *)
(***************************************************************************)
InsertUnstable(sorted, x) ==
    LET k == Cardinality({i \in 1..Len(sorted) : sorted[i].p > x.p})
    IN  SubSeq(sorted, 1, k) \o <<x>> \o SubSeq(sorted, k + 1, Len(sorted))

InsertStable(sorted, x) ==
    LET k == Cardinality({i \in 1..Len(sorted) : sorted[i].p >= x.p})
    IN  SubSeq(sorted, 1, k) \o <<x>> \o SubSeq(sorted, k + 1, Len(sorted))

RECURSIVE SortByPriorityDesc(_)
SortByPriorityDesc(s) ==
    IF s = <<>> THEN <<>>
    ELSE InsertStable(SortByPriorityDesc(SubSeq(s, 1, Len(s) - 1)), s[Len(s)])

(***************************************************************************)
(* Event bus.                                                              *)
(***************************************************************************)
LOW == 1
NORMAL == 2
HIGH == 3
CRITICAL == 4
EventPriority == {LOW, NORMAL, HIGH, CRITICAL}

EventNames == {"e1", "e2"}

\* Callables given as handlers and callbacks.  "partial" stands for a callable
\* that has no __name__ attribute (a functools.partial, an instance with
\* __call__, a Mock); the bus and the pipeline read handler.__name__ in their
\* log messages.
Callables == {"f1", "f2", "partial"}

HasName(c) == c # "partial"

\* EventBus.__init__
NewEventBus ==
    [handlers |-> EmptyDict, event_history |-> <<>>, max_history |-> MaxHistory]

\* What a call on the bus reports: raised is TRUE when the call ended with an
\* exception; bound is the handler list the dispatch iterated and calls the
\* handlers it invoked, in order, each with whether it raised.
BusResult(b, op, name, raised, bound, calls) ==
    [bus |-> b, op |-> op, name |-> name, raised |-> raised, bound |-> bound,
     calls |-> calls]

\* EventBus.on: the binding is appended and the list sorted before the debug
\* message reads handler.__name__.
EventBus_on(b, event_name, handler, priority, stamp) ==
    LET old == DictGet(b.handlers, event_name, <<>>)
        binding == [cb |-> handler, p |-> priority, reg |-> stamp]
        new == SortByPriorityDesc(Append(old, binding))
    IN  BusResult([b EXCEPT !.handlers = DictPut(b.handlers, event_name, new)],
                  "on", event_name, ~HasName(handler), <<>>, <<>>)

\* EventBus.off: the list of the event is replaced by its bindings of other
\* handlers before the debug message reads handler.__name__.  The report
\* holds the list as it was.
EventBus_off(b, event_name, handler) ==
    IF event_name \in DOMAIN b.handlers
    THEN BusResult([b EXCEPT !.handlers[event_name] =
                                SelectSeqBy(b.handlers[event_name], handler)],
                   "off", event_name, ~HasName(handler),
                   b.handlers[event_name], <<>>)
    ELSE BusResult(b, "off", event_name, FALSE, <<>>, <<>>)

TrimKeepOldest(history, max_history) ==
    IF Len(history) > max_history
    THEN SubSeq(history, 1, max_history)
    ELSE history

\* history[-max_history:] of a list longer than max_history
TrimHistory(history, max_history) ==
    IF Len(history) > max_history
    THEN SubSeq(history, Len(history) - max_history + 1, Len(history))
    ELSE history

\* EventBus._add_to_history
EventBus_add_to_history(b, event) ==
    [b EXCEPT !.event_history =
        TrimHistory(Append(b.event_history, event), b.max_history)]

RECURSIVE EmitLoop(_, _, _)
\* The for loop of emit_sync from position i: the handlers at the positions
\* in raisers raise.  The except clause formats handler.__name__, so an
\* exception of a handler without __name__ is replaced by an AttributeError
\* that leaves the loop.
EmitLoop(hs, raisers, i) ==
    IF i > Len(hs) THEN [calls |-> <<>>, raised |-> FALSE]
    ELSE IF i \in raisers /\ ~HasName(hs[i].cb)
         THEN [calls |-> <<[b |-> hs[i], threw |-> TRUE]>>, raised |-> TRUE]
         ELSE LET rest == EmitLoop(hs, raisers, i + 1)
              IN  [calls |-> <<[b |-> hs[i], threw |-> i \in raisers]>>
                                \o rest.calls,
                   raised |-> rest.raised]

HistoryBeforeAppend(b, b1) == b.event_history

\* The history a handler called by emit_sync can read: _add_to_history has
\* run on b and given b1 before the loop over the handlers starts.
HistoryAtDispatch(b, b1) == b1.event_history

\* The calls of one dispatch, each with the history its handler can read
Observed(calls, history) ==
    [i \in DOMAIN calls |->
        [b |-> calls[i].b, threw |-> calls[i].threw, seen |-> history]]

\* EventBus.emit_sync
EventBus_emit_sync(b, event, raisers) ==
    LET b1 == EventBus_add_to_history(b, event)
        handlers == DictGet(b1.handlers, event.name, <<>>)
        run == EmitLoop(handlers, raisers, 1)
    IN  IF handlers = <<>>
        THEN BusResult(b1, "emit_sync", event.name, FALSE, <<>>, <<>>)
        ELSE BusResult(b1, "emit_sync", event.name, run.raised, handlers,
                       Observed(run.calls, HistoryAtDispatch(b, b1)))

\* EventBus.clear_history
EventBus_clear_history(b) == [b EXCEPT !.event_history = <<>>]

\* Python's seq[start:]: a negative start counts from the end, and a start
\* outside the sequence is clipped.
SliceFrom(seq, start) ==
    LET n == Len(seq)
        from == IF start < 0 THEN (IF n + start < 0 THEN 0 ELSE n + start)
                ELSE (IF start > n THEN n ELSE start)
    IN  SubSeq(seq, from + 1, n)

\* The event_name argument of get_history when none is given (None)
AnyEvent == ""

\* EventBus.get_history: the history is filtered when event_name is truthy,
\* and the slice [-limit:] of the filtered list is returned.
EventBus_get_history(b, event_name, limit) ==
    LET filtered == IF event_name # AnyEvent
                    THEN SelectSeq(b.event_history,
                                   LAMBDA e : e.name = event_name)
                    ELSE b.event_history
    IN  SliceFrom(filtered, 0 - limit)

NoBusOut ==
    [op |-> "none", name |-> "", raised |-> FALSE, bound |-> <<>>,
     calls |-> <<>>, limit |-> 0, result |-> <<>>, handler |-> ""]

OutOf(r) ==
    [op |-> r.op, name |-> r.name, raised |-> r.raised, bound |-> r.bound,
     calls |-> r.calls, limit |-> 0, result |-> <<>>, handler |-> ""]

(***************************************************************************)
(* Asynchronous dispatch.  An emit_async call is a record: its event, how  *)
(* it was made ("await": awaited by a coroutine, "emit": scheduled by      *)
(* emit() with create_task), where it stands (pc), the handler list it     *)
(* read, and for each handler of the list the state of its                 *)
(* _run_handler_async task:                                                *)
(*   "ready"    created by gather, not yet run by the event loop           *)
(*   "queued"   a plain function handed to the executor, not yet begun     *)
(*   "running"  the handler has been called and has not finished           *)
(*   "done"     the task has finished                                      *)
(*   "cancelled" the task was cancelled before it finished                 *)
(* begun lists the handlers in the order in which they were called, each   *)
(* with the history the bus held at that moment; threw is the set of       *)
(* handlers that raised.                                                   *)
(***************************************************************************)
\* async def handlers
Coroutines == {"co1"}

\* asyncio.iscoroutinefunction(handler)
IsCoroutineFunction(handler) == handler \in Coroutines

\* asyncio.create_task(self.emit_async(...)): nothing of the body has run
NewCall(event, origin) ==
    [event |-> event, origin |-> origin, pc |-> "scheduled", hs |-> <<>>,
     st |-> <<>>, begun |-> <<>>, threw |-> {}, raised |-> FALSE,
     local |-> <<>>]

(***************************************************************************)
(* Publishing from several threads.  A thread that calls emit_sync runs    *)
(* _add_to_history in steps between which another thread can run; the call *)
(* is a record like the one of an emit_async call, with origin "thread",   *)
(* and its pc is the step the thread takes next:                           *)
(*   "append"  self.event_history.append(event)                            *)
(*   "check"   if len(self.event_history) > self.max_history               *)
(*   "slice"   evaluate self.event_history[-self.max_history:]             *)
(*   "store"   self.event_history = <the slice>                            *)
(*   "done"    _add_to_history has returned                                *)
(* local holds the slice between "slice" and "store".                      *)
(***************************************************************************)
\* emit_sync called in a thread: the event is built, nothing is stored yet
NewThreadCall(event) == [NewCall(event, "thread") EXCEPT !.pc = "append"]

\* One step of _add_to_history by the thread of call on bus b
AddToHistoryStep(b, call) ==
    CASE call.pc = "append" ->
           [bus |-> [b EXCEPT !.event_history = Append(@, call.event)],
            call |-> [call EXCEPT !.pc = "check"]]
      [] call.pc = "check" ->
           [bus |-> b,
            call |-> [call EXCEPT !.pc =
                         IF Len(b.event_history) > b.max_history
                         THEN "slice" ELSE "done"]]
      [] call.pc = "slice" ->
           [bus |-> b,
            call |-> [call EXCEPT !.pc = "store",
                         !.local = TrimHistory(b.event_history,
                                               b.max_history)]]
      [] call.pc = "store" ->
           [bus |-> [b EXCEPT !.event_history = call.local],
            call |-> [call EXCEPT !.pc = "done", !.local = <<>>]]

\* EmitAsync from its first line to the await of gather: the event is added
\* to the history, the handler list is read, and one task per handler is
\* made, in list order.
EventBus_emit_async(b, call) ==
    LET b1 == EventBus_add_to_history(b, call.event)
        handlers == DictGet(b1.handlers, call.event.name, <<>>)
    IN  [bus |-> b1,
         call |-> IF handlers = <<>>
                  THEN [call EXCEPT !.pc = "done"]
                  ELSE [call EXCEPT !.pc = "gathering", !.hs = handlers,
                           !.st = [i \in 1..Len(handlers) |-> "ready"]]]

\* The handler is called: by the event loop for a coroutine function, by a
\* thread of the executor for a plain function.
HandlerCalled(call, i, history) ==
    [call EXCEPT !.st[i] = "running",
                 !.begun = Append(@, [i |-> i, seen |-> history])]

\* _run_handler_async, first step of the task: a coroutine function is
\* called and awaited, a plain function is handed to run_in_executor.
RunHandlerAsync(call, i, history) ==
    IF IsCoroutineFunction(call.hs[i].cb)
    THEN HandlerCalled(call, i, history)
    ELSE [call EXCEPT !.st[i] = "queued"]

\* _run_handler_async, the handler returned or raised: the task ends.  (An
\* exception, also the AttributeError of the except clause for a handler
\* without __name__, stays in the task.)
HandlerFinished(call, i, threw) ==
    [call EXCEPT !.st[i] = "done",
                 !.threw = IF threw THEN @ \cup {i} ELSE @]

\* emit() keeps no reference to the task it makes (asyncio.create_task(...)
\* as a statement), so nothing awaits it: when the coroutine given to
\* asyncio.run returns, the loop cancels every task that is not done.  A
\* dispatch that has not started never runs its body; a handler task that
\* has not started, or whose plain function is still queued in the executor,
\* never calls its handler; a coroutine handler that is suspended ends with
\* CancelledError; a plain function that a thread is running runs on.
CancelAllTasks(call) ==
    IF call.pc = "done"
    THEN call
    ELSE [call EXCEPT !.pc = "cancelled",
             !.st = [i \in DOMAIN call.st |->
                       IF \/ call.st[i] \in {"ready", "queued"}
                          \/ /\ call.st[i] = "running"
                             /\ IsCoroutineFunction(call.hs[i].cb)
                       THEN "cancelled" ELSE call.st[i]]]

GatherAnyDone(call) == \E i \in 1..Len(call.st) : call.st[i] = "done"

\* asyncio.gather(*tasks): done when every task is done
GatherDone(call) == \A i \in 1..Len(call.st) : call.st[i] = "done"

\* await asyncio.gather(*tasks, return_exceptions=True) returns: the
\* exceptions of the tasks are results, emit_async returns None.
GatherReturned(call) == [call EXCEPT !.pc = "done", !.raised = FALSE]

(***************************************************************************)
(* Hook pipeline.                                                          *)
(***************************************************************************)
HookPoints == {"pre_analysis", "post_analysis"}

HookPriorities == {0, 1}

\* The data threaded through a hook point is a reference into a heap of
\* dictionaries: heap[r] is the set of keys of the dictionary r.  None is the
\* null reference.
None == 0

\* The callbacks, each named after what it does with (data, context):
\*   set_return      data[k] = True; return data        (k is its own key)
\*   copy_return     return {**data, k: True}
\*   set_inplace     data[k] = True                     (returns None)
\*   raiser          raise
\*   set_then_raise  data[k] = True; raise
\*   partial         raise, and the callable has no __name__
HookCallbacks ==
    {"set_return", "copy_return", "set_inplace", "raiser", "set_then_raise",
     "partial"}

\* Callbacks defined with async def.  co_set_return: data[k] = True; return
\* data.  co_sleep_set_return: await asyncio.sleep(0) and then the same.
AsyncCallbacks == {"co_set_return", "co_sleep_set_return"}

\* The callback gives the event loop back to the other tasks while it is
\* awaited
Suspends(cb) == cb = "co_sleep_set_return"

\* The hook callback a plugin registers in initialize,
\* CorrectiveRAGPluginWrapper.enhance_rag_results, called with a context
\* that holds no 'query': return data
PluginCallback == "enhance_rag_results"

\* The heap entry of a coroutine object, which is not a dictionary
CoroutineObject == {"<coroutine>"}

Mutates(cb) ==
    cb \in {"set_return", "set_inplace", "set_then_raise", "co_set_return",
            "co_sleep_set_return"}

Throws(cb) == cb \in {"raiser", "set_then_raise", "partial"}

\* callback(result, context): the heap after the call, the returned reference
\* and whether the call raised.
Call(cb, cur, heap) ==
    LET marked == [heap EXCEPT ![cur] = heap[cur] \cup {cb}]
    IN  CASE heap[cur] = CoroutineObject /\ (Mutates(cb) \/ cb = "copy_return") ->
               [heap |-> heap, ret |-> None, threw |-> TRUE]
          [] cb = "copy_return" ->
               [heap |-> Append(heap, heap[cur] \cup {cb}),
                ret |-> Len(heap) + 1, threw |-> FALSE]
          [] cb \in {"set_return", "co_set_return", "co_sleep_set_return"} ->
               [heap |-> marked, ret |-> cur, threw |-> FALSE]
          [] cb = PluginCallback ->
               [heap |-> heap, ret |-> cur, threw |-> FALSE]
          [] OTHER ->
               [heap |-> IF Mutates(cb) THEN marked ELSE heap,
                ret |-> None, threw |-> Throws(cb)]

\* What the loop of execute and of execute_async gets from a callback: an
\* async def callback that is awaited (execute_async) runs like a function;
\* one that is only called (execute) does not run and returns a new
\* coroutine object.
Invoke(cb, cur, heap, awaited) ==
    IF cb \in AsyncCallbacks /\ ~awaited
    THEN [heap |-> Append(heap, CoroutineObject), ret |-> Len(heap) + 1,
          threw |-> FALSE]
    ELSE Call(cb, cur, heap)

\* HookManager.__init__
NewHookManager == [hooks |-> EmptyDict, hook_stats |-> EmptyDict]

HookResult(h, op, hp, raised, bound, log, result, heap) ==
    [hm |-> h, op |-> op, hp |-> hp, raised |-> raised, bound |-> bound,
     log |-> log, result |-> result, heap |-> heap]

\* HookManager.register: a hook point seen for the first time gets an empty
\* list and a zero counter; the debug message reads callback.__name__ after
\* the binding is stored.
HookManager_register(h, hook_point, callback, priority, stamp) ==
    LET fresh == hook_point \notin DOMAIN h.hooks
        hooks0 == IF fresh THEN DictPut(h.hooks, hook_point, <<>>) ELSE h.hooks
        stats0 == IF fresh THEN DictPut(h.hook_stats, hook_point, 0)
                  ELSE h.hook_stats
        binding == [cb |-> callback, p |-> priority, reg |-> stamp]
        new == SortByPriorityDesc(Append(hooks0[hook_point], binding))
    IN  HookResult([hooks |-> DictPut(hooks0, hook_point, new),
                    hook_stats |-> stats0],
                   "register", hook_point, ~HasName(callback), <<>>, <<>>,
                   None, <<>>)

\* HookManager.unregister
HookManager_unregister(h, hook_point, callback) ==
    IF hook_point \in DOMAIN h.hooks
    THEN HookResult([h EXCEPT !.hooks[hook_point] =
                                 SelectSeqBy(h.hooks[hook_point], callback)],
                    "unregister", hook_point, ~HasName(callback), <<>>, <<>>,
                    None, <<>>)
    ELSE HookResult(h, "unregister", hook_point, FALSE, <<>>, <<>>, None, <<>>)

NextValueKept(result, modified) == result

\* if modified is not None: result = modified
NextValue(result, modified) == IF modified # None THEN modified ELSE result

NoBindingsNever(hooks) == FALSE

\* if not hooks: return data
NoBindings(hooks) == Len(hooks) = 0

\* A counter that starts again from an empty table at every execution
CountExecutionFresh(h, hook_point) ==
    [h EXCEPT !.hook_stats = DictPut(EmptyDict, hook_point, 1)]

\* self.hook_stats[hook_point] = self.hook_stats.get(hook_point, 0) + 1
CountExecution(h, hook_point) ==
    [h EXCEPT !.hook_stats =
        DictPut(h.hook_stats, hook_point,
                DictGet(h.hook_stats, hook_point, 0) + 1)]

RECURSIVE HookLoop(_, _, _, _, _)
\* The for loop of execute (awaited = FALSE) and of execute_async (awaited =
\* TRUE) from position i, with result = cur.  Each log
\* entry holds the binding called, the reference it received, the keys that
\* dictionary had when the call began, whether the call raised and what it
\* returned.  The except clause formats callback.__name__, so an exception
\* of a callback without __name__ is replaced by an AttributeError that
\* leaves the loop.
HookLoop(hs, i, cur, heap, awaited) ==
    IF i > Len(hs)
    THEN [log |-> <<>>, result |-> cur, heap |-> heap, raised |-> FALSE]
    ELSE LET c == Invoke(hs[i].cb, cur, heap, awaited)
             entry == [b |-> hs[i], arg |-> cur, seen |-> heap[cur],
                       threw |-> c.threw, ret |-> c.ret]
         IN  IF c.threw /\ ~HasName(hs[i].cb)
             THEN [log |-> <<entry>>, result |-> None, heap |-> c.heap,
                   raised |-> TRUE]
             ELSE LET next == IF c.threw THEN cur ELSE NextValue(cur, c.ret)
                      rest == HookLoop(hs, i + 1, next, c.heap, awaited)
                  IN  [log |-> <<entry>> \o rest.log, result |-> rest.result,
                       heap |-> rest.heap, raised |-> rest.raised]

\* HookManager.execute
HookManager_execute(h, hook_point, data, heap) ==
    LET hooks == DictGet(h.hooks, hook_point, <<>>)
        run == HookLoop(hooks, 1, data, heap, FALSE)
    IN  IF NoBindings(hooks)
        THEN HookResult(h, "execute", hook_point, FALSE, hooks, <<>>, data,
                        heap)
        ELSE HookResult(CountExecution(h, hook_point), "execute", hook_point,
                        run.raised, hooks, run.log, run.result, run.heap)

\* HookManager.execute_async when no other task runs while it awaits its
\* callbacks: the same steps, but an async def callback is awaited; a
\* function is called inline.
HookManager_execute_async(h, hook_point, data, heap) ==
    LET hooks == DictGet(h.hooks, hook_point, <<>>)
        run == HookLoop(hooks, 1, data, heap, TRUE)
    IN  IF NoBindings(hooks)
        THEN HookResult(h, "execute_async", hook_point, FALSE, hooks, <<>>,
                        data, heap)
        ELSE HookResult(CountExecution(h, hook_point), "execute_async",
                        hook_point, run.raised, hooks, run.log, run.result,
                        run.heap)

\* The hook_point argument that is None (or any other false value)
NoHookPoint == ""

RECURSIVE AsyncLoop(_, _, _, _)
\* The for loop of execute_async from position i of the list object hs up to
\* the first await at which the call is suspended (at is its position) or to
\* the end (at is 0)
AsyncLoop(hs, i, cur, heap) ==
    IF i > Len(hs)
    THEN [log |-> <<>>, result |-> cur, heap |-> heap, raised |-> FALSE,
          at |-> 0]
    ELSE IF Suspends(hs[i].cb)
    THEN [log |-> <<>>, result |-> cur, heap |-> heap, raised |-> FALSE,
          at |-> i]
    ELSE LET c == Invoke(hs[i].cb, cur, heap, TRUE)
             entry == [b |-> hs[i], arg |-> cur, seen |-> heap[cur],
                       threw |-> c.threw, ret |-> c.ret]
         IN  IF c.threw /\ ~HasName(hs[i].cb)
             THEN [log |-> <<entry>>, result |-> None, heap |-> c.heap,
                   raised |-> TRUE, at |-> 0]
             ELSE LET next == IF c.threw THEN cur ELSE NextValue(cur, c.ret)
                      rest == AsyncLoop(hs, i + 1, next, c.heap)
                  IN  [log |-> <<entry>> \o rest.log, result |-> rest.result,
                       heap |-> rest.heap, raised |-> rest.raised,
                       at |-> rest.at]

\* An execute_async call suspended in the callback of position i: bound is
\* the list when the call began, local the list object the loop iterates,
\* same whether that object is still the one stored in self.hooks, b the
\* binding whose callback is awaited, cur the result so far.
SuspendedCall(hp, bound, local, i, cur, heap, log) ==
    [hp |-> hp, bound |-> bound, local |-> local, same |-> TRUE, i |-> i,
     b |-> local[i], cur |-> cur, heap |-> heap, log |-> log]

\* HookManager.execute_async from its first line to its first suspension or
\* to its return: the report, and the suspended call if there is one
ExecuteAsyncBegin(h, hook_point, data, heap) ==
    LET hooks == DictGet(h.hooks, hook_point, <<>>)
        run == AsyncLoop(hooks, 1, data, heap)
    IN  IF NoBindings(hooks)
        THEN [r |-> HookResult(h, "execute_async", hook_point, FALSE, hooks,
                               <<>>, data, heap),
              call |-> <<>>]
        ELSE IF run.at = 0
        THEN [r |-> HookResult(CountExecution(h, hook_point), "execute_async",
                               hook_point, run.raised, hooks, run.log,
                               run.result, run.heap),
              call |-> <<>>]
        ELSE [r |-> HookResult(CountExecution(h, hook_point), "await",
                               hook_point, FALSE, hooks, run.log, None,
                               run.heap),
              call |-> <<SuspendedCall(hook_point, hooks, hooks, run.at,
                                       run.result, run.heap, run.log)>>]

\* The awaited callback of a suspended call returns and the loop goes on
\* with the next position of its list object, to the next suspension or to
\* the return of execute_async
ExecuteAsyncResume(h, call) ==
    LET c == Call(call.b.cb, call.cur, call.heap)
        entry == [b |-> call.b, arg |-> call.cur,
                  seen |-> call.heap[call.cur], threw |-> c.threw,
                  ret |-> c.ret]
        next == IF c.threw THEN call.cur ELSE NextValue(call.cur, c.ret)
        run == AsyncLoop(call.local, call.i + 1, next, c.heap)
        log == call.log \o <<entry>> \o run.log
    IN  IF run.at = 0
        THEN [r |-> HookResult(h, "execute_async", call.hp, run.raised,
                               call.bound, log, run.result, run.heap),
              call |-> <<>>]
        ELSE [r |-> HookResult(h, "await", call.hp, FALSE, call.bound, log,
                               None, run.heap),
              call |-> <<[call EXCEPT !.i = run.at, !.b = call.local[run.at],
                             !.cur = run.result, !.heap = run.heap,
                             !.log = log]>>]

\* What a call of another task does to the list object of a suspended
\* call: register appends to the stored list and sorts it in place, and
\* clear_hooks(hook_point) empties it in place; unregister stores a new
\* list and clear_hooks() empties the dictionary, which leave the object of
\* the suspended loop as it is.
AfterCall(call, op, hook_point, before, after) ==
    CASE op = "register" /\ hook_point = call.hp /\ call.same ->
           [call EXCEPT !.local = after.hooks[hook_point]]
      [] op = "unregister" /\ hook_point = call.hp
            /\ hook_point \in DOMAIN before.hooks ->
           [call EXCEPT !.same = FALSE]
      [] op = "clear_hooks" /\ hook_point = NoHookPoint ->
           [call EXCEPT !.same = FALSE]
      [] op = "clear_hooks" /\ hook_point = call.hp /\ call.same ->
           [call EXCEPT !.local = <<>>]
      [] OTHER -> call

AfterCalls(calls, op, hook_point, before, after) ==
    [c \in DOMAIN calls |-> AfterCall(calls[c], op, hook_point, before, after)]

\* HookManager.clear_stats
HookManager_clear_stats(h) == [h EXCEPT !.hook_stats = EmptyDict]

\* HookManager.clear_hooks(hook_point)
HookManager_clear_hooks(h, hook_point) ==
    IF hook_point # NoHookPoint
    THEN IF hook_point \in DOMAIN h.hooks
         THEN [h EXCEPT !.hooks[hook_point] = <<>>]
         ELSE h
    ELSE [h EXCEPT !.hooks = EmptyDict]

NoHookOut ==
    [op |-> "none", hp |-> "", raised |-> FALSE, bound |-> <<>>, log |-> <<>>,
     input |-> None, result |-> None, heap |-> <<>>]

HookOutOf(r, input) ==
    [op |-> r.op, hp |-> r.hp, raised |-> r.raised, bound |-> r.bound,
     log |-> r.log, input |-> input, result |-> r.result, heap |-> r.heap]

(***************************************************************************)
(* Plugin manager.                                                         *)
(***************************************************************************)
\* The element of a one-element set.  A call's result that is used more than
\* once is bound by  r \in {Call(...)}  so that it is computed once.
The(S) == CHOOSE x \in S : TRUE

\* Dictionaries whose insertion order the code can observe (it iterates
\* .values()) are sequences of key/value entries.  Assigning to a key that is
\* present replaces the value where it stands; a new key goes to the end.
ODKeys(od) == {od[i].k : i \in 1..Len(od)}

ODGet(od, k) == (od[CHOOSE i \in 1..Len(od) : od[i].k = k]).v

\* d[k] = v
ODPut(od, k, v) ==
    IF k \in ODKeys(od)
    THEN [i \in 1..Len(od) |-> IF od[i].k = k THEN [k |-> k, v |-> v] ELSE od[i]]
    ELSE Append(od, [k |-> k, v |-> v])

\* PluginManager.__init__
NewPluginManager ==
    [plugins |-> <<>>, metadata |-> <<>>, analyzers |-> <<>>,
     extractors |-> <<>>, evaluators |-> <<>>, intelligence_plugins |-> <<>>,
     events |-> NewEventBus, hooks |-> NewHookManager]

\* The plugin classes a plugin file can hold.  found: the class name ends in
\* 'Plugin' and the class has a metadata attribute, so _load_plugin_from_file
\* picks it; new: what calling the class does; init: what initialize(system)
\* does:
\*   "ok"        returns without touching system.plugins (OCRPlugin without
\*               its dependencies)
\*   "raise"     raises
\*   "register"  system.plugins.register_intelligence_plugin(...) and then
\*               system.plugins.hooks.register(...) (CorrectiveRAGPluginWrapper)
\*   "register_raise"  the same two registrations, and then it raises
AlphaPlugin ==
    [cls |-> "AlphaPlugin", name |-> "alpha", found |-> TRUE, new |-> "ok",
     init |-> "ok"]
AlphaTwoPlugin ==
    [cls |-> "AlphaTwoPlugin", name |-> "alpha", found |-> TRUE, new |-> "ok",
     init |-> "register"]
BetaPlugin ==
    [cls |-> "BetaPlugin", name |-> "beta", found |-> TRUE, new |-> "ok",
     init |-> "register"]
BrokenPlugin ==
    [cls |-> "BrokenPlugin", name |-> "broken", found |-> TRUE, new |-> "ok",
     init |-> "raise"]
NoCtorPlugin ==
    [cls |-> "NoCtorPlugin", name |-> "noctor", found |-> TRUE,
     new |-> "raise", init |-> "ok"]
GammaWrapper ==
    [cls |-> "GammaWrapper", name |-> "gamma", found |-> FALSE, new |-> "ok",
     init |-> "ok"]

\* A plugin whose initialize registers like BetaPlugin's and then raises
DeltaPlugin ==
    [cls |-> "DeltaPlugin", name |-> "delta", found |-> TRUE, new |-> "ok",
     init |-> "register_raise"]

PluginClasses ==
    {AlphaPlugin, AlphaTwoPlugin, BetaPlugin, BrokenPlugin, NoCtorPlugin,
     GammaWrapper}

\* The hook binding and its priority that a "register" plugin makes.
PluginHookPoint == "post_rag_search"
PluginHookPriority == 10

\* plugin.initialize(system), with system.plugins = sp (0 is None): the
\* registrations go to the manager that system.plugins refers to.
Initialize(ms, sp, plugin) ==
    CASE plugin.init = "raise" -> [managers |-> ms, threw |-> TRUE]
      [] plugin.init \in {"register", "register_raise"} /\ sp = 0 ->
           [managers |-> ms, threw |-> TRUE]
      [] plugin.init \in {"register", "register_raise"} /\ sp # 0 ->
           LET target == ms[sp]
               rec == [name |-> plugin.name, obj |-> plugin.inst]
               hooked == HookManager_register(target.hooks, PluginHookPoint,
                             PluginCallback, PluginHookPriority,
                             plugin.inst).hm
           IN  [managers |->
                   [ms EXCEPT ![sp] =
                       [target EXCEPT
                          !.intelligence_plugins =
                              ODPut(target.intelligence_plugins, rec.name, rec),
                          !.hooks = hooked]],
                threw |-> plugin.init = "register_raise"]
      [] OTHER -> [managers |-> ms, threw |-> FALSE]

NeverRegistered(mgr, name) == FALSE

\* if name in self.plugins
AlreadyRegistered(mgr, name) == name \in ODKeys(mgr.plugins)

\* One line of the log of a manager call: the plugin class, the plugin's
\* name and instance, the manager that handled it, what system.plugins was
\* when initialize was called, and how far the registration got.
LogEntry(cls, name, inst, m, sp, called, threw, outcome) ==
    [cls |-> cls, name |-> name, inst |-> inst, loader |-> m, ctx |-> sp,
     initCalled |-> called, initThrew |-> threw, outcome |-> outcome]

TableBeforeStore(mgr, stored) == mgr

\* The manager a 'plugin_loaded' handler can read: register_plugin has
\* stored the plugin and its metadata (mgr giving stored) before it emits.
TableAtEmit(mgr, stored) == stored

\* PluginManager.register_plugin on manager m.  raisers: the positions of
\* the 'plugin_loaded' handlers that raise.  emits holds the emit_sync calls
\* made: the event, the manager as the handlers find it, the handlers called.
RegisterPlugin(ms, sp, m, plugin, raisers) ==
    IF AlreadyRegistered(ms[m], plugin.name)
    THEN [managers |-> ms, raised |-> FALSE, emits |-> <<>>,
          entry |-> LogEntry(plugin.cls, plugin.name, plugin.inst, m, sp,
                             FALSE, FALSE, "rejected")]
    ELSE The({
         IF init.threw
         THEN [managers |-> init.managers, raised |-> TRUE, emits |-> <<>>,
               entry |-> LogEntry(plugin.cls, plugin.name, plugin.inst, m,
                                  sp, TRUE, TRUE, "init_raised")]
         ELSE The({
              The({
                 [managers |->
                     [init.managers EXCEPT ![m] =
                         [stored EXCEPT !.events = emitted.bus]],
                  raised |-> emitted.raised,
                  emits |-> <<[event |-> [name |-> "plugin_loaded",
                                          id |-> plugin.inst],
                               table |-> TableAtEmit(init.managers[m], stored),
                               calls |-> emitted.calls]>>,
                  entry |-> LogEntry(plugin.cls, plugin.name, plugin.inst, m,
                                     sp, TRUE, FALSE,
                                     IF emitted.raised THEN "emit_raised"
                                     ELSE "loaded")] :
                 emitted \in
                    {EventBus_emit_sync(stored.events,
                        [name |-> "plugin_loaded", id |-> plugin.inst],
                        raisers)} }) :
              stored \in
                 {[init.managers[m] EXCEPT
                     !.plugins = ODPut(init.managers[m].plugins, plugin.name,
                                       plugin.inst),
                     !.metadata = ODPut(init.managers[m].metadata, plugin.name,
                                        [inst |-> plugin.inst,
                                         enabled |-> TRUE,
                                         loaded_at |-> TRUE])]} }) :
         init \in {Initialize(ms, sp, plugin)} })

\* plugin = plugin_class(); self.register_plugin(plugin)
InstantiateAndRegister(ms, sp, m, c, inst, raisers) ==
    IF c.new = "raise"
    THEN [managers |-> ms, raised |-> TRUE,
          entry |-> LogEntry(c.cls, c.name, inst, m, sp, FALSE, FALSE,
                             "new_raised")]
    ELSE RegisterPlugin(ms, sp, m,
                        [cls |-> c.cls, name |-> c.name, inst |-> inst,
                         init |-> c.init],
                        raisers)

InstanceErrorEscapesLoop(step) == step.raised

\* except Exception around plugin_class() and register_plugin: nothing
\* leaves the loop over the classes of a file.
InstanceErrorEscapes(step) == FALSE

RECURSIVE LoadClasses(_, _, _, _, _, _, _)
\* The loop of _load_plugin_from_file over plugin_classes from position i;
\* the instance made from cs[i] is number base + i.
LoadClasses(ms, sp, m, cs, i, base, raisers) ==
    IF i > Len(cs) THEN [managers |-> ms, log |-> <<>>, raised |-> FALSE]
    ELSE The({
         IF InstanceErrorEscapes(step)
         THEN [managers |-> step.managers, log |-> <<step.entry>>,
               raised |-> TRUE]
         ELSE The({
              [managers |-> rest.managers, log |-> <<step.entry>> \o rest.log,
               raised |-> rest.raised] :
              rest \in {LoadClasses(step.managers, sp, m, cs, i + 1, base,
                                    raisers)} }) :
         step \in {InstantiateAndRegister(ms, sp, m, cs[i], base + i,
                                          raisers)} })

IsFound(c) == c.found

\* The class names of the plugin files, in the order of Python's string
\* comparison
ClassNameOrder ==
    <<"AlphaPlugin", "AlphaTwoPlugin", "BetaPlugin", "BrokenPlugin",
      "DeltaPlugin", "GammaWrapper", "NoCtorPlugin">>

NameRank(cls) ==
    CHOOSE i \in DOMAIN ClassNameOrder : ClassNameOrder[i] = cls

RECURSIVE GetMembers(_)
\* inspect.getmembers(module, inspect.isclass): the classes of the module
\* sorted by name, whatever the order in which the file defines them
GetMembers(cs) ==
    IF cs = <<>> THEN <<>>
    ELSE LET sorted == GetMembers(SubSeq(cs, 1, Len(cs) - 1))
             x == cs[Len(cs)]
             k == Cardinality({i \in 1..Len(sorted) :
                                 NameRank(sorted[i].cls) < NameRank(x.cls)})
         IN  SubSeq(sorted, 1, k) \o <<x>> \o SubSeq(sorted, k + 1, Len(sorted))

\* plugin_classes: the classes of the module, in the order of getmembers,
\* that pass the name and metadata test
FoundClasses(unit) == SelectSeq(GetMembers(unit.classes), IsFound)

\* PluginManager._load_plugin_from_file: exec_module raises for a file that
\* does not import.
LoadPluginFromFile(ms, sp, m, unit, base, raisers) ==
    IF ~unit.imports
    THEN [managers |-> ms, log |-> <<>>, raised |-> TRUE]
    ELSE LoadClasses(ms, sp, m, FoundClasses(unit), 1, base, raisers)

RECURSIVE LoadUnits(_, _, _, _, _, _, _)
\* The loop of load_from_directory over the files from position u, each in
\* its own try/except Exception.
LoadUnits(ms, sp, m, units, u, base, raisers) ==
    IF u > Len(units) THEN [managers |-> ms, log |-> <<>>, raised |-> FALSE]
    ELSE The({
         The({
            [managers |-> rest.managers, log |-> one.log \o rest.log,
             raised |-> rest.raised] :
            rest \in {LoadUnits(one.managers, sp, m, units, u + 1,
                                base + Len(one.log), raisers)} }) :
         one \in {LoadPluginFromFile(ms, sp, m, units[u], base, raisers)} })

\* PluginManager.load_from_directory
LoadFromDirectory(ms, sp, m, dir, base, raisers) ==
    IF ~dir.exists
    THEN [managers |-> ms, log |-> <<>>, raised |-> FALSE]
    ELSE LoadUnits(ms, sp, m, dir.units, 1, base, raisers)

\* ARGOBootstrap._init_plugins: a new manager is built and loads the plugin
\* directory; the caller, ARGOBootstrap.initialize, assigns the manager to
\* self.plugins when _init_plugins has returned.
InitPlugins(ms, sp, dir, base, raisers) ==
    The({
       IF loaded.raised
       THEN [managers |->
                [loaded.managers EXCEPT ![Len(ms) + 1] = NewPluginManager],
             log |-> loaded.log, raised |-> FALSE, plugins |-> Len(ms) + 1]
       ELSE [managers |-> loaded.managers, log |-> loaded.log,
             raised |-> FALSE, plugins |-> Len(ms) + 1] :
       loaded \in {LoadFromDirectory(Append(ms, NewPluginManager), sp,
                                     Len(ms) + 1, dir, base, raisers)} })

\* register_extractor, register_evaluator, register_intelligence_plugin:
\* self.<registry>[record.name] = record
RegisterCapability(registry, record) == ODPut(registry, record.name, record)

\* register_analyzer: a warning when the name is present, then the same
\* assignment
RegisterAnalyzer(registry, record) == ODPut(registry, record.name, record)

\* None, where a capability record is expected
NoRecord == [name |-> "", obj |-> 0]

\* PluginManager.get_evaluator and the plain lookup registry.get(name)
LookupByName(registry, name) ==
    IF name \in ODKeys(registry) THEN ODGet(registry, name) ELSE NoRecord

(***************************************************************************)
(* The inputs of the manager: plugin files and plugin directories.         *)
(***************************************************************************)
FailingUnit == [imports |-> FALSE, classes |-> <<>>]

UnitOf(cs) == [imports |-> TRUE, classes |-> cs]

Dir(units) == [exists |-> TRUE, units |-> units]

MissingDirectory == [exists |-> FALSE, units |-> <<>>]

\* The plugin directories a bootstrap is configured with.
BootDirectories ==
    {MissingDirectory, Dir(<<>>), Dir(<<FailingUnit>>),
     Dir(<<UnitOf(<<AlphaPlugin>>)>>), Dir(<<UnitOf(<<BetaPlugin>>)>>),
     Dir(<<UnitOf(<<GammaWrapper>>)>>),
     Dir(<<UnitOf(<<BrokenPlugin, AlphaPlugin>>)>>),
     Dir(<<UnitOf(<<NoCtorPlugin, BetaPlugin>>)>>)}

Directories ==
    BootDirectories \cup
    {Dir(<<FailingUnit, UnitOf(<<AlphaPlugin>>)>>),
     Dir(<<UnitOf(<<BrokenPlugin>>), UnitOf(<<BetaPlugin>>)>>),
     Dir(<<UnitOf(<<AlphaPlugin>>), UnitOf(<<AlphaTwoPlugin>>)>>),
     Dir(<<UnitOf(<<AlphaTwoPlugin>>), UnitOf(<<AlphaPlugin>>)>>),
     Dir(<<UnitOf(<<AlphaPlugin>>), UnitOf(<<BetaPlugin>>)>>)}

RECURSIVE CountFound(_)
\* Number of plugin classes a load of these files instantiates.
CountFound(units) ==
    IF units = <<>> THEN 0
    ELSE (IF Head(units).imports THEN Len(FoundClasses(Head(units))) ELSE 0)
            + CountFound(Tail(units))

CapabilityNames == {"pdf", "ocr"}

Registries == {"extractors", "evaluators", "intelligence_plugins"}

NoMgrOut ==
    [op |-> "none", m |-> 0, raised |-> FALSE, log |-> <<>>,
     dir |-> MissingDirectory, registry |-> "",
     rec |-> NoRecord, prev |-> NoRecord,
     path |-> <<>>, found |-> NoRecord, health |-> <<>>, name |-> "",
     emits |-> <<>>]

(***************************************************************************)
(* Lookup of an analyzer or extractor for a file.  File names and          *)
(* extensions are sequences of characters.                                 *)
(***************************************************************************)
\* str.lower() on the characters of the model
Lower(ch) == CASE ch = "C" -> "c" [] ch = "P" -> "p" [] OTHER -> ch

LowerStr(str) == [i \in 1..Len(str) |-> Lower(str[i])]

\* Path(file_path).suffix: the part of the file name from its last dot, when
\* that dot is neither the first nor the last character; else ''.
Suffix(fname) ==
    LET dots == {i \in 1..Len(fname) : fname[i] = "."}
        last == CHOOSE i \in dots : \A j \in dots : j <= i
    IN  IF dots # {} /\ 1 < last /\ last < Len(fname)
        THEN SubSeq(fname, last, Len(fname))
        ELSE <<>>

\* path.suffix.lower() in supported_formats
ContainsSuffix(formats, file_path) == LowerStr(Suffix(file_path)) \in formats

\* BaseAnalyzer.can_handle
CanHandle(analyzer, file_path) ==
    ContainsSuffix(analyzer.formats, file_path)

RECURSIVE FirstHandling(_, _, _)
\* for record in registry.values(): if <handles file_path>: return record
FirstHandling(registry, i, file_path) ==
    IF i > Len(registry) THEN NoRecord
    ELSE IF CanHandle(registry[i].v, file_path) THEN registry[i].v
         ELSE FirstHandling(registry, i + 1, file_path)

\* PluginManager.get_analyzer
GetAnalyzer(mgr, file_path) == FirstHandling(mgr.analyzers, 1, file_path)

\* PluginManager.get_extractor
GetExtractor(mgr, file_path) == FirstHandling(mgr.extractors, 1, file_path)

\* File names given to the lookups: x.c, x.C, x.p, x and .c
FileNames ==
    {<<"x", ".", "c">>, <<"x", ".", "C">>, <<"x", ".", "p">>, <<"x">>,
     <<".", "c">>}

\* supported_formats of the analyzers and extractors: ['.c'], ['.C'] and
\* ['.c', '.p']
FormatLists ==
    {{<<".", "c">>}, {<<".", "C">>}, {<<".", "c">>, <<".", "p">>}}

FileKinds == {"analyzers", "extractors"}

(***************************************************************************)
(* Health sweep.                                                           *)
(***************************************************************************)
\* What plugin.health_check() does when it is called: it returns True, it
\* returns False, or it raises.
Probes == {"healthy", "unhealthy", "raise"}

ProbeErrorAborts(probe) == probe = "raise"

\* except Exception around plugin.health_check(): no probe's exception
\* leaves the loop.
ProbeErrorEscapes(probe) == FALSE

RECURSIVE HealthLoop(_, _, _)
\* The for loop of health_check over self.plugins.items() from position i:
\* probes[name] is what the probe of the plugin called name does.
HealthLoop(plugins, i, probes) ==
    IF i > Len(plugins) THEN [health |-> <<>>, log |-> <<>>, raised |-> FALSE]
    ELSE LET name == plugins[i].k
             entry == [name |-> name, inst |-> plugins[i].v,
                       probe |-> probes[name]]
         IN  IF ProbeErrorEscapes(probes[name])
             THEN [health |-> <<>>, log |-> <<entry>>, raised |-> TRUE]
             ELSE The({
                  [health |->
                      <<[k |-> name, v |-> probes[name] = "healthy"]>>
                         \o rest.health,
                   log |-> <<entry>> \o rest.log,
                   raised |-> rest.raised] :
                  rest \in {HealthLoop(plugins, i + 1, probes)} })

\* PluginManager.health_check
HealthCheck(mgr, probes) == HealthLoop(mgr.plugins, 1, probes)

(***************************************************************************)
(* Plugin lifecycle: enabling, disabling and shutting down.                *)
(***************************************************************************)
UnbindOnToggle(mgr, name, flag) ==
    IF name \in ODKeys(mgr.metadata)
    THEN [mgr EXCEPT !.metadata =
             ODPut(mgr.metadata, name,
                   [ODGet(mgr.metadata, name) EXCEPT !.enabled = flag]),
          !.hooks = NewHookManager]
    ELSE mgr

\* if name in self.metadata: self.metadata[name].enabled = flag
SetEnabled(mgr, name, flag) ==
    IF name \in ODKeys(mgr.metadata)
    THEN [mgr EXCEPT !.metadata =
             ODPut(mgr.metadata, name,
                   [ODGet(mgr.metadata, name) EXCEPT !.enabled = flag])]
    ELSE mgr

\* PluginManager.enable_plugin
EnablePlugin(mgr, name) == SetEnabled(mgr, name, TRUE)

\* PluginManager.disable_plugin
DisablePlugin(mgr, name) == SetEnabled(mgr, name, FALSE)

\* What plugin.shutdown() does when it is called: it returns or it raises.
Shutdowns == {"ok", "raise"}

ShutdownErrorAborts(shutdown) == shutdown = "raise"

\* except Exception around plugin.shutdown(): no exception leaves the loop.
ShutdownErrorEscapes(shutdown) == FALSE

RECURSIVE ShutdownLoop(_, _, _)
\* The for loop of shutdown_all over self.plugins.items() from position i:
\* downs[name] is what shutdown() of the plugin called name does.
ShutdownLoop(plugins, i, downs) ==
    IF i > Len(plugins) THEN [log |-> <<>>, raised |-> FALSE]
    ELSE LET name == plugins[i].k
             entry == [name |-> name, inst |-> plugins[i].v,
                       probe |-> downs[name]]
         IN  IF ShutdownErrorEscapes(downs[name])
             THEN [log |-> <<entry>>, raised |-> TRUE]
             ELSE The({
                  [log |-> <<entry>> \o rest.log, raised |-> rest.raised] :
                  rest \in {ShutdownLoop(plugins, i + 1, downs)} })

\* PluginManager.shutdown_all: the manager's tables are left as they are.
ShutdownAll(mgr, downs) == ShutdownLoop(mgr.plugins, 1, downs)

(***************************************************************************)
(* Initial state: the objects as their constructors leave them.            *)
(***************************************************************************)
Init ==
    /\ bus = NewEventBus
    /\ busOut = NoBusOut
    /\ subs = 0
    /\ pubs = 0
    /\ recorded = <<>>
    /\ aio = <<>>
    /\ hm = NewHookManager
    /\ hmOut = NoHookOut
    /\ regs = 0
    /\ execs = 0
    /\ awaiting = <<>>
    /\ managers = <<>>
    /\ sysPlugins = 0
    /\ mgrOut = NoMgrOut
    /\ insts = 0

(***************************************************************************)
(* Actions of the event bus.                                               *)
(***************************************************************************)
\* on(event_name, handler, priority), at most n times
On(n) ==
    /\ subs < n
    /\ \E e \in EventNames, h \in Callables, p \in EventPriority :
          LET r == EventBus_on(bus, e, h, p, subs + 1)
          IN  /\ bus' = r.bus
              /\ busOut' = OutOf(r)
    /\ subs' = subs + 1
    /\ UNCHANGED <<pubs, recorded, aio>>
    /\ UNCHANGED <<hookVars, mgrVars>>

\* off(event_name, handler)
Off ==
    /\ \E e \in EventNames, h \in Callables :
          LET r == EventBus_off(bus, e, h)
          IN  /\ bus' = r.bus
              /\ busOut' = [OutOf(r) EXCEPT !.handler = h]
    /\ UNCHANGED <<subs, pubs, recorded, aio>>
    /\ UNCHANGED <<hookVars, mgrVars>>

\* emit_sync(event_name, data), at most n times; any subset of the bound
\* handlers raises.
EmitSync(n) ==
    /\ pubs < n
    /\ \E e \in EventNames :
          LET event == [name |-> e, id |-> pubs + 1]
              k == Len(DictGet(bus.handlers, e, <<>>))
          IN  \E raisers \in SUBSET (1..k) :
                 LET r == EventBus_emit_sync(bus, event, raisers)
                 IN  /\ bus' = r.bus
                     /\ busOut' = OutOf(r)
                     /\ recorded' = Append(recorded, event)
    /\ pubs' = pubs + 1
    /\ UNCHANGED <<subs, aio>>
    /\ UNCHANGED <<hookVars, mgrVars>>

\* clear_history()
ClearHistory ==
    /\ bus' = EventBus_clear_history(bus)
    /\ busOut' = [NoBusOut EXCEPT !.op = "clear_history"]
    /\ recorded' = <<>>
    /\ UNCHANGED <<subs, pubs, aio>>
    /\ UNCHANGED <<hookVars, mgrVars>>

\* Subscriptions and dispatch.
NextBus == On(MaxSubs) \/ Off \/ EmitSync(MaxEmits)

SpecBus == Init /\ [][NextBus]_vars

\* The history buffer over long runs of publishes.
NextHistory == On(MaxHistSubs) \/ EmitSync(MaxPubs) \/ ClearHistory

SpecHistory == Init /\ [][NextHistory]_vars

\* A thread calls emit_sync(event_name, data), at most MaxThreads threads
\* being inside the call at a time
ThreadEmitSync ==
    /\ pubs < MaxPubs
    /\ Cardinality({c \in 1..Len(aio) : aio[c].pc # "done"}) < MaxThreads
    /\ \E e \in EventNames :
          /\ aio' = Append(aio, NewThreadCall([name |-> e, id |-> pubs + 1]))
          /\ busOut' = [NoBusOut EXCEPT !.op = "emit_sync", !.name = e]
    /\ pubs' = pubs + 1
    /\ UNCHANGED <<bus, subs, recorded>>
    /\ UNCHANGED <<hookVars, mgrVars>>

\* A thread takes its next step of _add_to_history.
ThreadStep ==
    /\ \E c \in 1..Len(aio) :
          /\ aio[c].origin = "thread"
          /\ aio[c].pc # "done"
          /\ \E r \in {AddToHistoryStep(bus, aio[c])} :
                /\ bus' = r.bus
                /\ aio' = [aio EXCEPT ![c] = r.call]
          /\ recorded' = IF aio[c].pc = "append"
                         THEN Append(recorded, aio[c].event) ELSE recorded
    /\ busOut' = [NoBusOut EXCEPT !.op = "thread"]
    /\ UNCHANGED <<subs, pubs>>
    /\ UNCHANGED <<hookVars, mgrVars>>

NextThreads == ThreadEmitSync \/ ThreadStep

SpecThreads == Init /\ [][NextThreads]_vars

\* get_history(event_name, limit) with a limit >= 0
GetHistory ==
    /\ \E e \in EventNames \cup {AnyEvent}, limit \in 0..(MaxHistory + 1) :
          busOut' = [NoBusOut EXCEPT !.op = "get_history", !.name = e,
                        !.limit = limit,
                        !.result = EventBus_get_history(bus, e, limit)]
    /\ UNCHANGED <<bus, subs, pubs, recorded, aio>>
    /\ UNCHANGED <<hookVars, mgrVars>>

NextQuery ==
    \/ EmitSync(MaxPubs)
    \/ ClearHistory
    \/ GetHistory

SpecQuery == Init /\ [][NextQuery]_vars

(***************************************************************************)
(* Actions of the asynchronous dispatch: the steps of the event loop and   *)
(* of the executor threads.                                                *)
(***************************************************************************)
\* on(event_name, handler, priority), at most n times, with a handler of
\* handlers (plain functions and async def functions) and a priority of
\* priorities
OnHandler(n, handlers, priorities) ==
    /\ subs < n
    /\ \E e \in EventNames, h \in handlers, p \in priorities :
          LET r == EventBus_on(bus, e, h, p, subs + 1)
          IN  /\ bus' = r.bus
              /\ busOut' = OutOf(r)
    /\ subs' = subs + 1
    /\ UNCHANGED <<pubs, recorded, aio>>
    /\ UNCHANGED <<hookVars, mgrVars>>

\* await bus.emit_async(event_name, data) in a coroutine: the body runs at
\* once up to the await of gather.
AwaitEmitAsync(n) ==
    /\ pubs < n
    /\ \E e \in EventNames :
          \E r \in {EventBus_emit_async(bus,
                       NewCall([name |-> e, id |-> pubs + 1], "await"))} :
             /\ bus' = r.bus
             /\ aio' = Append(aio, r.call)
             /\ recorded' = Append(recorded, r.call.event)
             /\ busOut' = [NoBusOut EXCEPT !.op = "emit_async", !.name = e]
    /\ pubs' = pubs + 1
    /\ UNCHANGED subs
    /\ UNCHANGED <<hookVars, mgrVars>>

\* bus.emit(event_name, data): with a running loop in the calling thread the
\* emit_async coroutine becomes a task and emit returns; without one emit
\* calls emit_sync.
Emit(n) ==
    /\ pubs < n
    /\ \E e \in EventNames, running \in BOOLEAN :
          LET event == [name |-> e, id |-> pubs + 1]
              k == Len(DictGet(bus.handlers, e, <<>>))
          IN  IF running
              THEN /\ aio' = Append(aio, NewCall(event, "emit"))
                   /\ busOut' = [NoBusOut EXCEPT !.op = "emit", !.name = e]
                   /\ UNCHANGED <<bus, recorded>>
              ELSE /\ \E raisers \in SUBSET (1..k) :
                         \E r \in {EventBus_emit_sync(bus, event, raisers)} :
                            /\ bus' = r.bus
                            /\ busOut' = [OutOf(r) EXCEPT !.op = "emit"]
                   /\ recorded' = Append(recorded, event)
                   /\ UNCHANGED aio
    /\ pubs' = pubs + 1
    /\ UNCHANGED subs
    /\ UNCHANGED <<hookVars, mgrVars>>

\* The event loop runs the task that emit() made: the body of emit_async up
\* to the await of gather.  The loop runs its ready tasks in the order in
\* which they were made.
StartScheduled ==
    /\ \E c \in 1..Len(aio) :
          /\ aio[c].pc = "scheduled"
          /\ \A d \in 1..(c - 1) : aio[d].pc # "scheduled"
          /\ \E r \in {EventBus_emit_async(bus, aio[c])} :
                /\ bus' = r.bus
                /\ aio' = [aio EXCEPT ![c] = r.call]
                /\ recorded' = Append(recorded, r.call.event)
    /\ busOut' = [NoBusOut EXCEPT !.op = "loop"]
    /\ UNCHANGED <<subs, pubs>>
    /\ UNCHANGED <<hookVars, mgrVars>>

\* The event loop runs a handler task for the first time; the tasks of one
\* gather become ready in list order and the loop runs ready tasks in that
\* order.
StartHandlerTask ==
    /\ \E c \in 1..Len(aio) : \E i \in 1..Len(aio[c].st) :
          /\ aio[c].st[i] = "ready"
          /\ \A j \in 1..(i - 1) : aio[c].st[j] # "ready"
          /\ aio' = [aio EXCEPT ![c] =
                        RunHandlerAsync(aio[c], i, bus.event_history)]
    /\ busOut' = [NoBusOut EXCEPT !.op = "loop"]
    /\ UNCHANGED <<bus, subs, pubs, recorded>>
    /\ UNCHANGED <<hookVars, mgrVars>>

\* A thread of the executor calls a queued handler.  When each of two
\* threads holds a queued handler, either may call its handler first.
BeginInExecutor ==
    /\ \E c \in 1..Len(aio) : \E i \in 1..Len(aio[c].st) :
          /\ aio[c].st[i] = "queued"
          /\ aio' = [aio EXCEPT ![c] =
                        HandlerCalled(aio[c], i, bus.event_history)]
    /\ busOut' = [NoBusOut EXCEPT !.op = "executor"]
    /\ UNCHANGED <<bus, subs, pubs, recorded>>
    /\ UNCHANGED <<hookVars, mgrVars>>

\* A handler returns or raises.
FinishHandler ==
    /\ \E c \in 1..Len(aio) : \E i \in 1..Len(aio[c].st), threw \in BOOLEAN :
          /\ aio[c].st[i] = "running"
          /\ aio' = [aio EXCEPT ![c] = HandlerFinished(aio[c], i, threw)]
    /\ busOut' = [NoBusOut EXCEPT !.op = "handler"]
    /\ UNCHANGED <<bus, subs, pubs, recorded>>
    /\ UNCHANGED <<hookVars, mgrVars>>

\* gather is done and emit_async returns.
FinishEmitAsync ==
    /\ \E c \in 1..Len(aio) :
          /\ aio[c].pc = "gathering"
          /\ GatherDone(aio[c])
          /\ aio' = [aio EXCEPT ![c] = GatherReturned(aio[c])]
    /\ busOut' = [NoBusOut EXCEPT !.op = "loop"]
    /\ UNCHANGED <<bus, subs, pubs, recorded>>
    /\ UNCHANGED <<hookVars, mgrVars>>

\* Subscriptions and publishes of a behaviour share one budget, and the
\* publishes fit into the history.
SubsLeft == MaxAsyncOps - pubs

PubsLeft == IF MaxAsyncOps - subs < MaxHistory THEN MaxAsyncOps - subs
            ELSE MaxHistory

\* Steps of the event loop and of the executor threads on the handlers of
\* the calls under way
HandlerStep ==
    StartHandlerTask \/ BeginInExecutor \/ FinishHandler \/ FinishEmitAsync

NextAsync ==
    \/ OnHandler(SubsLeft, {"f1"} \cup Coroutines, {NORMAL, HIGH})
    \/ EmitSync(PubsLeft)
    \/ AwaitEmitAsync(PubsLeft)
    \/ HandlerStep

SpecAsync == Init /\ [][NextAsync]_vars

\* The coroutine given to asyncio.run returns while a dispatch made by emit()
\* is not done: its tasks are cancelled and the loop is closed.
CloseLoop ==
    /\ \E c \in 1..Len(aio) : aio[c].pc \notin {"done", "cancelled"}
    /\ aio' = [c \in 1..Len(aio) |-> CancelAllTasks(aio[c])]
    /\ busOut' = [NoBusOut EXCEPT !.op = "close"]
    /\ UNCHANGED <<bus, subs, pubs, recorded>>
    /\ UNCHANGED <<hookVars, mgrVars>>

\* emit() with and without a running event loop, with handlers subscribed
\* and unsubscribed before and after, in a loop that may close at any moment
NextEmit ==
    \/ OnHandler(SubsLeft, {"f1"} \cup Coroutines, {NORMAL})
    \/ Off
    \/ Emit(PubsLeft)
    \/ StartScheduled
    \/ HandlerStep
    \/ CloseLoop

\* The steps that call the handlers of a scheduled dispatch
Delivery == StartScheduled \/ StartHandlerTask \/ BeginInExecutor

\* As long as the loop is not closed it runs its ready tasks and the
\* executor its queue: a task that stays ready is run.  Nothing keeps the
\* loop from closing first (CloseLoop), after which no step of a cancelled
\* dispatch is enabled.
SpecEmit == Init /\ [][NextEmit]_vars /\ WF_vars(Delivery)

(***************************************************************************)
(* Actions of the hook pipeline.                                           *)
(***************************************************************************)
\* register(hook_point, callback, priority) at a hook point of P
Register(P) ==
    /\ regs < MaxRegs
    /\ \E hp \in P, cb \in HookCallbacks, p \in HookPriorities :
          LET r == HookManager_register(hm, hp, cb, p, regs + 1)
          IN  /\ hm' = r.hm
              /\ hmOut' = HookOutOf(r, None)
              /\ awaiting' = AfterCalls(awaiting, "register", hp, hm, r.hm)
    /\ regs' = regs + 1
    /\ UNCHANGED execs
    /\ UNCHANGED <<busVars, mgrVars>>

\* unregister(hook_point, callback)
Unregister(P) ==
    /\ \E hp \in P, cb \in HookCallbacks :
          LET r == HookManager_unregister(hm, hp, cb)
          IN  /\ hm' = r.hm
              /\ hmOut' = HookOutOf(r, None)
              /\ awaiting' = AfterCalls(awaiting, "unregister", hp, hm, r.hm)
    /\ UNCHANGED <<regs, execs>>
    /\ UNCHANGED <<busVars, mgrVars>>

\* execute(hook_point, {}), at most n calls in a behaviour: the data is a
\* new empty dictionary, reference 1
ExecuteUpTo(n, P) ==
    /\ execs < n
    /\ \E hp \in P :
          LET r == HookManager_execute(hm, hp, 1, <<{}>>)
          IN  /\ hm' = r.hm
              /\ hmOut' = HookOutOf(r, 1)
    /\ execs' = execs + 1
    /\ UNCHANGED <<regs, awaiting>>
    /\ UNCHANGED <<busVars, mgrVars>>

Execute(P) == ExecuteUpTo(MaxExecs, P)

\* await execute_async(hook_point, {}) by a task, at most n calls in a
\* behaviour: the call runs to its return or to the first await at which it
\* is suspended
ExecuteAsyncUpTo(n, P) ==
    /\ execs < n
    /\ \E hp \in P :
          \E x \in {ExecuteAsyncBegin(hm, hp, 1, <<{}>>)} :
             /\ hm' = x.r.hm
             /\ hmOut' = HookOutOf(x.r, 1)
             /\ awaiting' = awaiting \o x.call
    /\ execs' = execs + 1
    /\ UNCHANGED regs
    /\ UNCHANGED <<busVars, mgrVars>>

ExecuteAsync(P) == ExecuteAsyncUpTo(MaxExecs, P)

\* The event loop resumes a suspended execute_async call
ResumeExecuteAsync ==
    /\ \E c \in DOMAIN awaiting :
          \E x \in {ExecuteAsyncResume(hm, awaiting[c])} :
             /\ hmOut' = HookOutOf(x.r, 1)
             /\ awaiting' = SubSeq(awaiting, 1, c - 1) \o x.call
                                \o SubSeq(awaiting, c + 1, Len(awaiting))
    /\ UNCHANGED <<hm, regs, execs>>
    /\ UNCHANGED <<busVars, mgrVars>>

\* clear_hooks(hook_point) and clear_hooks()
ClearHooks(P) ==
    /\ \E hp \in P \cup {NoHookPoint} :
          /\ hm' = HookManager_clear_hooks(hm, hp)
          /\ awaiting' = AfterCalls(awaiting, "clear_hooks", hp, hm,
                                    HookManager_clear_hooks(hm, hp))
    /\ hmOut' = [NoHookOut EXCEPT !.op = "clear_hooks"]
    /\ UNCHANGED <<regs, execs>>
    /\ UNCHANGED <<busVars, mgrVars>>

\* clear_stats()
ClearStats ==
    /\ hm' = HookManager_clear_stats(hm)
    /\ hmOut' = [NoHookOut EXCEPT !.op = "clear_stats"]
    /\ UNCHANGED <<regs, execs, awaiting>>
    /\ UNCHANGED <<busVars, mgrVars>>

\* register(hook_point, callback, priority) at a hook point of P with a
\* callback of callbacks and a priority of priorities
RegisterOf(P, callbacks, priorities) ==
    /\ regs < MaxRegs
    /\ \E hp \in P, cb \in callbacks, p \in priorities :
          LET r == HookManager_register(hm, hp, cb, p, regs + 1)
          IN  /\ hm' = r.hm
              /\ hmOut' = HookOutOf(r, None)
              /\ awaiting' = AfterCalls(awaiting, "register", hp, hm, r.hm)
    /\ regs' = regs + 1
    /\ UNCHANGED execs
    /\ UNCHANGED <<busVars, mgrVars>>

\* One hook point, its chain of callbacks and its counter.
ChainPoints == {"pre_analysis"}

NextHooks ==
    \/ Register(ChainPoints)
    \/ Unregister(ChainPoints)
    \/ Execute(ChainPoints)
    \/ ExecuteAsync(ChainPoints)
    \/ ClearHooks(ChainPoints)
    \/ ClearStats

SpecHooks == Init /\ [][NextHooks]_vars

\* Two hook points and their counters, each executed several times;
\* callbacks that return, raise, and raise without a __name__.
NextStats ==
    \/ RegisterOf(HookPoints, {"set_return", "raiser", "partial"}, {0})
    \/ ExecuteUpTo(MaxCounted, HookPoints)
    \/ ExecuteAsyncUpTo(MaxCounted, HookPoints)
    \/ ClearStats

SpecStats == Init /\ [][NextStats]_vars

\* One hook point with functions and async def callbacks, executed by
\* execute and by execute_async
NextBothPaths ==
    \/ RegisterOf(ChainPoints,
                  {"set_return", "copy_return", "raiser", "partial"}
                     \cup AsyncCallbacks, HookPriorities)
    \/ Execute(ChainPoints)
    \/ ExecuteAsync(ChainPoints)
    \/ ResumeExecuteAsync
    \/ ClearHooks(ChainPoints)

SpecBothPaths == Init /\ [][NextBothPaths]_vars

(***************************************************************************)
(* Actions of the plugin manager and of the bootstrap.                     *)
(***************************************************************************)
PluginLoadedHandlers(m) == DictGet(managers[m].events.handlers, "plugin_loaded", <<>>)

RECURSIVE HandlerCount(_)
HandlerCount(m) ==
    IF m = 0 THEN 0 ELSE Len(PluginLoadedHandlers(m)) + HandlerCount(m - 1)

\* The objects created so far: managers, plugin instances, handlers.
Objects == Len(managers) + insts + HandlerCount(Len(managers))

\* ARGOBootstrap.initialize, phase 7.5: self.plugins = self._init_plugins(),
\* with the plugins directory one of dirs
BootstrapFrom(dirs) ==
    /\ \E dir \in dirs :
          /\ Objects + 1 + CountFound(dir.units) <= MaxObjects
          /\ \E r \in {InitPlugins(managers, sysPlugins, dir, insts, {})} :
                 /\ managers' = r.managers
                 /\ sysPlugins' = r.plugins
                 /\ mgrOut' = [NoMgrOut EXCEPT !.op = "bootstrap",
                                  !.m = r.plugins, !.raised = r.raised,
                                  !.log = r.log, !.dir = dir]
                 /\ insts' = insts + Len(r.log)
    /\ UNCHANGED <<busVars, hookVars>>

BootstrapInitialize == BootstrapFrom(BootDirectories)

\* PluginManager(system) on the host object, without a load
NewManager ==
    /\ Objects < MaxObjects
    /\ managers' = Append(managers, NewPluginManager)
    /\ mgrOut' = [NoMgrOut EXCEPT !.op = "new_manager", !.m = Len(managers) + 1]
    /\ UNCHANGED <<sysPlugins, insts>>
    /\ UNCHANGED <<busVars, hookVars>>

\* manager.load_from_directory(dir) on an existing manager
LoadDirectory ==
    \E m \in 1..Len(managers), dir \in Directories :
       /\ Objects + CountFound(dir.units) <= MaxObjects
       /\ \E raisers \in SUBSET (1..Len(PluginLoadedHandlers(m))) :
             \E r \in {LoadFromDirectory(managers, sysPlugins, m, dir, insts,
                                          raisers)} :
                 /\ managers' = r.managers
                 /\ mgrOut' = [NoMgrOut EXCEPT !.op = "load_from_directory",
                                  !.m = m, !.raised = r.raised, !.log = r.log,
                                  !.dir = dir]
                 /\ insts' = insts + Len(r.log)
       /\ UNCHANGED sysPlugins
       /\ UNCHANGED <<busVars, hookVars>>

\* manager.register_plugin(cls()) by the host, for a class of classes that
\* instantiates
RegisterPluginOf(classes) ==
    /\ Objects < MaxObjects
    /\ \E m \in 1..Len(managers), c \in classes :
          /\ c.new = "ok"
          /\ \E raisers \in SUBSET (1..Len(PluginLoadedHandlers(m))) :
                \E r \in {RegisterPlugin(managers, sysPlugins, m,
                             [cls |-> c.cls, name |-> c.name,
                              inst |-> insts + 1, init |-> c.init], raisers)} :
                    /\ managers' = r.managers
                    /\ mgrOut' = [NoMgrOut EXCEPT !.op = "register_plugin",
                                     !.m = m, !.raised = r.raised,
                                     !.log = <<r.entry>>,
                                     !.emits = r.emits]
    /\ insts' = insts + 1
    /\ UNCHANGED sysPlugins
    /\ UNCHANGED <<busVars, hookVars>>

RegisterOnePlugin == RegisterPluginOf(PluginClasses)

\* manager.events.on('plugin_loaded', handler) by the host
SubscribePluginLoaded ==
    /\ \E m \in 1..Len(managers), h \in {"f1", "partial"} :
          /\ Objects < MaxObjects
          /\ LET r == EventBus_on(managers[m].events, "plugin_loaded", h,
                                  NORMAL, Len(PluginLoadedHandlers(m)) + 1)
             IN  /\ managers' = [managers EXCEPT ![m].events = r.bus]
                 /\ mgrOut' = [NoMgrOut EXCEPT !.op = "on", !.m = m,
                                  !.raised = r.raised]
    /\ UNCHANGED <<sysPlugins, insts>>
    /\ UNCHANGED <<busVars, hookVars>>

NextMgr ==
    \/ BootstrapInitialize
    \/ NewManager
    \/ LoadDirectory
    \/ RegisterOnePlugin
    \/ SubscribePluginLoaded

SpecMgr == Init /\ [][NextMgr]_vars

\* Plugins whose initialize registers, raises, and registers and then raises
NextFailedInit ==
    \/ BootstrapFrom({MissingDirectory, Dir(<<>>)})
    \/ RegisterPluginOf({BetaPlugin, BrokenPlugin, DeltaPlugin})
    \/ SubscribePluginLoaded

SpecFailedInit == Init /\ [][NextFailedInit]_vars

RegistryOf(mgr, registry) ==
    CASE registry = "extractors" -> mgr.extractors
      [] registry = "evaluators" -> mgr.evaluators
      [] registry = "intelligence_plugins" -> mgr.intelligence_plugins
      [] registry = "analyzers" -> mgr.analyzers

\* manager.register_extractor(rec), manager.register_evaluator(rec) and
\* manager.register_intelligence_plugin(rec), rec a new object
RegisterRecord ==
    /\ Objects < MaxObjects
    /\ \E m \in 1..Len(managers), registry \in Registries,
          name \in CapabilityNames :
          LET rec == [name |-> name, obj |-> insts + 1]
              old == RegistryOf(managers[m], registry)
              new == RegisterCapability(old, rec)
          IN  /\ managers' =
                    [managers EXCEPT ![m] =
                       CASE registry = "extractors" -> [@ EXCEPT !.extractors = new]
                         [] registry = "evaluators" -> [@ EXCEPT !.evaluators = new]
                         [] registry = "intelligence_plugins" ->
                              [@ EXCEPT !.intelligence_plugins = new]]
              /\ mgrOut' = [NoMgrOut EXCEPT !.op = "register_record", !.m = m,
                               !.registry = registry, !.rec = rec,
                               !.prev = LookupByName(old, rec.name)]
    /\ insts' = insts + 1
    /\ UNCHANGED sysPlugins
    /\ UNCHANGED <<busVars, hookVars>>

\* manager.register_analyzer(rec), rec a new object
RegisterAnalyzerRecord ==
    /\ Objects < MaxObjects
    /\ \E m \in 1..Len(managers), name \in CapabilityNames :
          LET rec == [name |-> name, obj |-> insts + 1]
              old == managers[m].analyzers
          IN  /\ managers' = [managers EXCEPT ![m].analyzers =
                                 RegisterAnalyzer(old, rec)]
              /\ mgrOut' = [NoMgrOut EXCEPT !.op = "register_analyzer",
                               !.m = m, !.registry = "analyzers", !.rec = rec,
                               !.prev = LookupByName(old, rec.name)]
    /\ insts' = insts + 1
    /\ UNCHANGED sysPlugins
    /\ UNCHANGED <<busVars, hookVars>>

NextRegistry == NewManager \/ RegisterRecord \/ RegisterAnalyzerRecord

SpecRegistry == Init /\ [][NextRegistry]_vars

(***************************************************************************)
(* Actions of the lookup by file.                                          *)
(***************************************************************************)
\* manager.register_analyzer(rec) and manager.register_extractor(rec), rec a
\* new object with its supported_formats
RegisterFormatRecord ==
    /\ Objects < MaxObjects
    /\ \E m \in 1..Len(managers), kind \in FileKinds,
          name \in CapabilityNames, formats \in FormatLists :
          LET rec == [name |-> name, obj |-> insts + 1, formats |-> formats]
          IN  /\ managers' =
                    [managers EXCEPT ![m] =
                       IF kind = "analyzers"
                       THEN [@ EXCEPT !.analyzers = RegisterAnalyzer(@, rec)]
                       ELSE [@ EXCEPT !.extractors = RegisterCapability(@, rec)]]
              /\ mgrOut' = [NoMgrOut EXCEPT !.op = "register_format_record",
                               !.m = m, !.registry = kind, !.rec = rec]
    /\ insts' = insts + 1
    /\ UNCHANGED sysPlugins
    /\ UNCHANGED <<busVars, hookVars>>

\* manager.get_analyzer(file_path) and manager.get_extractor(file_path)
GetForFile ==
    /\ \E m \in 1..Len(managers), kind \in FileKinds, fname \in FileNames :
          mgrOut' = [NoMgrOut EXCEPT
                        !.op = "get_for_file", !.m = m, !.registry = kind,
                        !.path = fname,
                        !.found = IF kind = "analyzers"
                                  THEN GetAnalyzer(managers[m], fname)
                                  ELSE GetExtractor(managers[m], fname)]
    /\ UNCHANGED <<managers, sysPlugins, insts>>
    /\ UNCHANGED <<busVars, hookVars>>

NextLookup == NewManager \/ RegisterFormatRecord \/ GetForFile

SpecLookup == Init /\ [][NextLookup]_vars

(***************************************************************************)
(* Actions of the health sweep.                                            *)
(***************************************************************************)
\* manager.health_check(), each plugin's probe doing any of the three things
CheckHealth ==
    /\ \E m \in 1..Len(managers) :
          \E probes \in [ODKeys(managers[m].plugins) -> Probes] :
             \E r \in {HealthCheck(managers[m], probes)} :
                mgrOut' = [NoMgrOut EXCEPT !.op = "health_check", !.m = m,
                              !.raised = r.raised, !.log = r.log,
                              !.health = IF r.raised THEN <<>> ELSE r.health]
    /\ UNCHANGED <<managers, sysPlugins, insts>>
    /\ UNCHANGED <<busVars, hookVars>>

NextHealth == NewManager \/ RegisterOnePlugin \/ CheckHealth

SpecHealth == Init /\ [][NextHealth]_vars

(***************************************************************************)
(* Actions of the plugin lifecycle.                                        *)
(***************************************************************************)
\* The names of the plugin classes
PluginNames == {c.name : c \in PluginClasses}

\* manager.enable_plugin(name) and manager.disable_plugin(name) with a name
\* of names
TogglePlugin(names) ==
    /\ \E m \in 1..Len(managers), name \in names :
          \/ /\ managers' = [managers EXCEPT ![m] = EnablePlugin(@, name)]
             /\ mgrOut' = [NoMgrOut EXCEPT !.op = "enable_plugin", !.m = m,
                              !.name = name]
          \/ /\ managers' = [managers EXCEPT ![m] = DisablePlugin(@, name)]
             /\ mgrOut' = [NoMgrOut EXCEPT !.op = "disable_plugin", !.m = m,
                              !.name = name]
    /\ UNCHANGED <<sysPlugins, insts>>
    /\ UNCHANGED <<busVars, hookVars>>

\* manager.hooks.execute('post_rag_search', {}) by the host
ExecutePluginHooks ==
    /\ execs < MaxExecs
    /\ \E m \in 1..Len(managers) :
          \E r \in {HookManager_execute(managers[m].hooks, PluginHookPoint, 1,
                                        <<{}>>)} :
             /\ managers' = [managers EXCEPT ![m].hooks = r.hm]
             /\ mgrOut' = [NoMgrOut EXCEPT !.op = "execute", !.m = m,
                              !.raised = r.raised, !.log = r.log]
    /\ execs' = execs + 1
    /\ UNCHANGED <<sysPlugins, insts>>
    /\ UNCHANGED <<hm, hmOut, regs, awaiting>>
    /\ UNCHANGED busVars

\* manager.shutdown_all(), each plugin's shutdown() returning or raising
ShutdownAllPlugins ==
    /\ \E m \in 1..Len(managers) :
          \E downs \in [ODKeys(managers[m].plugins) -> Shutdowns] :
             \E r \in {ShutdownAll(managers[m], downs)} :
                mgrOut' = [NoMgrOut EXCEPT !.op = "shutdown_all", !.m = m,
                              !.raised = r.raised, !.log = r.log]
    /\ UNCHANGED <<managers, sysPlugins, insts>>
    /\ UNCHANGED <<busVars, hookVars>>

\* Plugins registered after a bootstrap without plugins directory, enabled
\* and disabled, and their hooks
NextToggle ==
    \/ BootstrapFrom({MissingDirectory})
    \/ RegisterOnePlugin
    \/ TogglePlugin({"beta", "gamma"})
    \/ ExecutePluginHooks

SpecToggle == Init /\ [][NextToggle]_vars

\* Plugins registered, enabled and disabled, probed and shut down
NextLifecycle ==
    \/ NewManager
    \/ RegisterOnePlugin
    \/ TogglePlugin(PluginNames)
    \/ ShutdownAllPlugins
    \/ CheckHealth

SpecLifecycle == Init /\ [][NextLifecycle]_vars

(***************************************************************************)
(* Properties of the event bus.                                            *)
(***************************************************************************)
\* Descending priority tier, and registration order within a tier.
HandlersOrdered(hs) ==
    \A i, j \in 1..Len(hs) :
        i < j => \/ hs[i].p > hs[j].p
                 \/ hs[i].p = hs[j].p /\ hs[i].reg < hs[j].reg

CalledBindings == [i \in 1..Len(busOut.calls) |-> busOut.calls[i].b]

\* C1: after every sequence of on and off calls each handler list is in
\* descending priority tier with equal tiers in subscription order, and
\* emit_sync invokes the bound handlers of the event in exactly that order
\* (all of them when it returns, a leading part when it is cut short).
C1_DispatchOrder ==
    /\ \A e \in DOMAIN bus.handlers : HandlersOrdered(bus.handlers[e])
    /\ busOut.op = "emit_sync" =>
          /\ busOut.bound = DictGet(bus.handlers, busOut.name, <<>>)
          /\ CalledBindings = SubSeq(busOut.bound, 1, Len(busOut.calls))
          /\ HandlersOrdered(CalledBindings)
          /\ ~busOut.raised => Len(busOut.calls) = Len(busOut.bound)

\* A dispatch in which the handler subscribed last ran first.
C1_Witness ==
    /\ busOut.op = "emit_sync"
    /\ Len(busOut.calls) = 2
    /\ busOut.calls[1].b.p > busOut.calls[2].b.p
    /\ busOut.calls[1].b.reg > busOut.calls[2].b.reg

\* C2: emit_sync never raises and invokes every bound handler, whichever
\* handlers raise.
C2_HandlerFailureIsolated ==
    busOut.op = "emit_sync" =>
        /\ ~busOut.raised
        /\ Len(busOut.calls) = Len(busOut.bound)

\* C6: the history never holds more than max_history events, and it is the
\* most recently recorded events in recording order.
C6_HistoryBounded ==
    LET n == Len(recorded)
        k == IF n < bus.max_history THEN n ELSE bus.max_history
    IN  /\ Len(bus.event_history) <= bus.max_history
        /\ bus.event_history = SubSeq(recorded, n - k + 1, n)

\* More events were recorded than the history holds: the oldest are gone.
C6_Witness ==
    /\ Len(recorded) > bus.max_history
    /\ Len(bus.event_history) = bus.max_history
    /\ bus.event_history[1].id = recorded[1].id + (Len(recorded) - bus.max_history)

(***************************************************************************)
(* Properties of the hook pipeline.                                        *)
(***************************************************************************)
\* The value that is current after the call logged in entry e.
After(e) == IF ~e.threw /\ e.ret # None THEN e.ret ELSE e.arg

\* C3: execute calls the bound callbacks in list order; the first receives
\* the input, each later one receives the previous callback's non-null
\* return value or else the value the previous callback received, and the
\* value execute returns is the one current after the last callback.
C3_Threading ==
    hmOut.op = "execute" =>
        LET log == hmOut.log
            n == Len(log)
        IN  /\ n <= Len(hmOut.bound)
            /\ \A i \in 1..n : log[i].b = hmOut.bound[i]
            /\ n >= 1 => log[1].arg = hmOut.input
            /\ \A i \in 1..(n - 1) : log[i + 1].arg = After(log[i])
            /\ ~hmOut.raised =>
                  /\ n = Len(hmOut.bound)
                  /\ hmOut.result = IF n = 0 THEN hmOut.input ELSE After(log[n])

\* An execute in which one callback's return value replaced the data and a
\* later callback returned None, leaving the replacement as the result.
C3_Witness ==
    /\ hmOut.op = "execute"
    /\ ~hmOut.raised
    /\ Len(hmOut.log) >= 2
    /\ \E i, j \in 1..Len(hmOut.log) :
          /\ i < j
          /\ hmOut.log[i].ret \notin {None, hmOut.log[i].arg}
          /\ hmOut.log[j].ret = None /\ ~hmOut.log[j].threw
          /\ hmOut.result = hmOut.log[i].ret

\* C4: when a callback raises, execute returns normally, every later
\* callback is invoked, the next callback receives the value as it was
\* before the raising callback was called, and the result shows no effect
\* of the raising callback.
C4_RaiseLeavesNoTrace ==
    (hmOut.op = "execute" /\ \E i \in 1..Len(hmOut.log) : hmOut.log[i].threw) =>
        /\ ~hmOut.raised
        /\ Len(hmOut.log) = Len(hmOut.bound)
        /\ \A i \in 1..Len(hmOut.log) :
              hmOut.log[i].threw =>
                 /\ i < Len(hmOut.log) =>
                       /\ hmOut.log[i + 1].arg = hmOut.log[i].arg
                       /\ hmOut.log[i + 1].seen = hmOut.log[i].seen
                 /\ hmOut.log[i].b.cb \notin hmOut.heap[hmOut.result]

\* C5: execute and execute_async on a hook point without bindings return
\* the input reference, leave the dictionary it refers to as it was, and
\* change neither the hook lists nor the execution counters.
C5_PassThrough ==
    [][(execs' = execs + 1 /\ DictGet(hm.hooks, hmOut'.hp, <<>>) = <<>>) =>
          /\ hm' = hm
          /\ ~hmOut'.raised
          /\ hmOut'.log = <<>>
          /\ hmOut'.result = hmOut'.input
          /\ hmOut'.heap = <<{}>>]_vars

\* An execute on a hook point whose bindings were all removed again.
C5_Witness ==
    /\ hmOut.op \in {"execute", "execute_async"}
    /\ hmOut.hp \in DOMAIN hm.hooks
    /\ hmOut.bound = <<>>
    /\ hmOut.result = hmOut.input

(***************************************************************************)
(* Properties of the plugin manager.                                       *)
(***************************************************************************)
IsLoadOp(op) == op \in {"load_from_directory", "bootstrap"}

IsPluginOp(op) == op \in {"register_plugin", "load_from_directory", "bootstrap"}

Stored(e) == e.outcome \in {"loaded", "emit_raised"}

\* The names in manager m's plugin table when entry i of the log was
\* handled: those of the table before the call and those stored by the
\* earlier entries.
NamesAt(before, log, i) ==
    ODKeys(before) \cup {log[j].name : j \in {k \in 1..(i - 1) : Stored(log[k])}}

\* The plugin table of the manager a call was made on, before the call; a
\* bootstrap makes its manager, whose table starts empty.
TableBefore(ms, out) == IF out.op = "bootstrap" THEN <<>> ELSE ms[out.m].plugins

MetadataBefore(ms, out) ==
    IF out.op = "bootstrap" THEN <<>> ELSE ms[out.m].metadata

\* C7: register_plugin with a name that is in the plugin table is rejected
\* without raising, by hand and during discovery: initialize of the second
\* instance is not invoked, the instance and the metadata stored first stay
\* where they are, and the table holds one entry per name.  A manual
\* register_plugin of a present name changes nothing at all.
C7_DuplicateRejected ==
    [][IsPluginOp(mgrOut'.op) =>
         LET out == mgrOut'
             before == TableBefore(managers, out)
             after == managers'[out.m].plugins
         IN  /\ \A i \in 1..Len(out.log) :
                   (/\ out.log[i].outcome # "new_raised"
                    /\ out.log[i].name \in NamesAt(before, out.log, i))
                   => /\ out.log[i].outcome = "rejected"
                      /\ ~out.log[i].initCalled
             /\ \A i \in 1..Len(before) :
                   /\ after[i] = before[i]
                   /\ managers'[out.m].metadata[i] =
                         MetadataBefore(managers, out)[i]
             /\ Cardinality(ODKeys(after)) = Len(after)
             /\ Len(managers'[out.m].metadata) = Len(after)
             /\ (/\ out.op = "register_plugin"
                 /\ out.log[1].name \in ODKeys(before))
                => /\ ~out.raised
                   /\ managers' = managers
    ]_vars

\* A second instance of a stored name was offered by hand and rejected.
C7_Witness ==
    /\ mgrOut.op = "register_plugin"
    /\ mgrOut.log[1].outcome = "rejected"
    /\ mgrOut.log[1].name \in ODKeys(managers[mgrOut.m].plugins)
    /\ ODGet(managers[mgrOut.m].plugins, mgrOut.log[1].name) # mgrOut.log[1].inst

\* The table entries that the log of a load says were made.
LoadedBy(log) ==
    {<<log[i].name, log[i].inst>> :
        i \in {k \in 1..Len(log) : log[k].initCalled /\ ~log[k].initThrew}}

Entries(od) == {<<od[i].k, od[i].v>> : i \in 1..Len(od)}

\* C8: load_from_directory does not raise; every plugin class found in a
\* file that imports is instantiated and offered for registration whatever
\* happened to the files and classes before it; and the plugin table
\* afterwards is the table before plus the instances whose initialize was
\* invoked and returned normally.
C8_LoadIsolatesFailures ==
    [][IsLoadOp(mgrOut'.op) =>
         LET out == mgrOut'
         IN  /\ ~out.raised
             /\ Len(out.log) =
                   IF out.dir.exists THEN CountFound(out.dir.units) ELSE 0
             /\ Entries(managers'[out.m].plugins) =
                   Entries(TableBefore(managers, out)) \cup LoadedBy(out.log)
    ]_vars

\* A load in which one plugin raised in initialize and another one was
\* loaded, leaving exactly one entry.
C8_Witness ==
    /\ mgrOut.op = "load_from_directory"
    /\ \E i, j \in 1..Len(mgrOut.log) :
          /\ mgrOut.log[i].outcome = "init_raised"
          /\ mgrOut.log[j].outcome = "loaded"
    /\ Len(managers[mgrOut.m].plugins) = 1

\* C9: during bootstrap, when initialize(system) of a plugin is invoked,
\* system.plugins is the manager that is loading the plugin.
C9_ContextExposesLoader ==
    mgrOut.op = "bootstrap" =>
       \A i \in 1..Len(mgrOut.log) :
          mgrOut.log[i].initCalled => mgrOut.log[i].ctx = mgrOut.log[i].loader

IsRecordOp(op) == op = "register_record"

\* C10: registering an extractor, evaluator or intelligence record under a
\* name the registry holds leaves the registry as it was: lookup by that
\* name still returns the record registered first.
C10_FirstRegistrationWins ==
    [][(IsRecordOp(mgrOut'.op) /\ mgrOut'.prev # NoRecord) =>
         RegistryOf(managers'[mgrOut'.m], mgrOut'.registry) =
            RegistryOf(managers[mgrOut'.m], mgrOut'.registry)
    ]_vars

(***************************************************************************)
(* Properties of the lookup by file.                                       *)
(***************************************************************************)
\* The records of a registry whose formats contain the extension of the
\* file name when both are compared without regard to case.
AcceptingRecords(registry, fname) ==
    {registry[i].v : i \in
        {k \in 1..Len(registry) :
            \E f \in registry[k].v.formats :
               LowerStr(f) = LowerStr(Suffix(fname))}}

\* C11: get_analyzer(path) and get_extractor(path) return the record
\* registered first among those whose supported formats contain the
\* extension of path, compared case-insensitively, and None when there is
\* no such record.
C11_FirstAcceptingRecord ==
    mgrOut.op = "get_for_file" =>
       LET accepting ==
              AcceptingRecords(RegistryOf(managers[mgrOut.m], mgrOut.registry),
                               mgrOut.path)
       IN  IF accepting = {} THEN mgrOut.found = NoRecord
           ELSE /\ mgrOut.found \in accepting
                /\ \A r \in accepting : mgrOut.found.obj <= r.obj

(***************************************************************************)
(* Properties of the health sweep.                                         *)
(***************************************************************************)
\* C12: health_check() does not raise and returns a mapping with exactly one
\* entry for every plugin of the table; every plugin's probe is called once;
\* the entry is False for a plugin whose probe raised and the probe's result
\* for every other plugin, also for the plugins after one whose probe
\* raised.
C12_HealthSweepComplete ==
    mgrOut.op = "health_check" =>
       LET plugins == managers[mgrOut.m].plugins
       IN  /\ ~mgrOut.raised
           /\ Len(mgrOut.health) = Len(plugins)
           /\ Len(mgrOut.log) = Len(plugins)
           /\ \A i \in 1..Len(plugins) :
                 /\ mgrOut.log[i].name = plugins[i].k
                 /\ mgrOut.log[i].inst = plugins[i].v
                 /\ mgrOut.health[i].k = plugins[i].k
                 /\ mgrOut.health[i].v =
                       CASE mgrOut.log[i].probe = "raise" -> FALSE
                         [] mgrOut.log[i].probe = "healthy" -> TRUE
                         [] mgrOut.log[i].probe = "unhealthy" -> FALSE

\* A sweep in which the probe of one plugin raised and the probe of a later
\* plugin returned True.
C12_Witness ==
    /\ mgrOut.op = "health_check"
    /\ \E i, j \in 1..Len(mgrOut.log) :
          /\ i < j
          /\ mgrOut.log[i].probe = "raise"
          /\ mgrOut.log[j].probe = "healthy"
          /\ mgrOut.health[i].v = FALSE
          /\ mgrOut.health[j].v = TRUE

(***************************************************************************)
(* Properties of asynchronous dispatch.                                    *)
(***************************************************************************)
\* The number of times handler i of a call has been called
TimesCalled(call, i) ==
    Cardinality({k \in 1..Len(call.begun) : call.begun[k].i = i})

\* C13: emit_async calls every handler bound to the event exactly once and
\* returns only when all of them have finished; a handler that raises
\* neither keeps another handler from running nor makes emit_async raise.
C13_AsyncDeliversAll ==
    [][/\ busOut'.op = "emit_async" =>
             aio'[Len(aio')].hs = DictGet(bus.handlers, busOut'.name, <<>>)
       /\ \A c \in 1..Len(aio') :
             LET call == aio'[c]
             IN  /\ \A i \in 1..Len(call.hs) : TimesCalled(call, i) <= 1
                 /\ \A k \in 1..Len(call.begun) :
                       call.begun[k].i \in 1..Len(call.hs)
                 /\ call.pc = "done" =>
                       /\ ~call.raised
                       /\ \A i \in 1..Len(call.hs) :
                             /\ TimesCalled(call, i) = 1
                             /\ call.st[i] = "done"]_vars

\* An emit_async call that has returned, with a plain function and an async
\* def handler bound, one of which raised and the other did not.
C13_Witness ==
    \E c \in 1..Len(aio) :
       /\ aio[c].pc = "done"
       /\ aio[c].origin = "await"
       /\ Len(aio[c].hs) = 2
       /\ \E i, j \in 1..2 :
             /\ IsCoroutineFunction(aio[c].hs[i].cb)
             /\ ~IsCoroutineFunction(aio[c].hs[j].cb)
       /\ Cardinality(aio[c].threw) = 1
       /\ aio[c].begun[1].i \in aio[c].threw

\* C14: within one emit_async call the handlers begin in the order of the
\* list (descending priority, ties in subscription order): no handler is
\* called before every handler ahead of it in the list has been called.
C14_AsyncBeginOrder ==
    \A c \in 1..Len(aio) :
       \A k \in 1..Len(aio[c].begun) : aio[c].begun[k].i = k

\* The events of a history
EventsOf(history) == {history[k] : k \in 1..Len(history)}

\* C16: every emit_sync and emit_async call appends exactly one event, its
\* own, to the history, with or without a handler bound, and does so before
\* the first handler is called: the history a handler reads holds the event
\* that triggered it.  No other step of a dispatch changes the history.
C16_RecordedBeforeDispatch ==
    [][/\ IF busOut'.op \in {"emit_sync", "emit_async"} /\ pubs' = pubs + 1
          THEN bus'.event_history =
                  Append(bus.event_history,
                         [name |-> busOut'.name, id |-> pubs'])
          ELSE bus'.event_history = bus.event_history
       /\ busOut'.op = "emit_sync" =>
             \A k \in 1..Len(busOut'.calls) :
                [name |-> busOut'.name, id |-> pubs']
                   \in EventsOf(busOut'.calls[k].seen)
       /\ \A c \in 1..Len(aio') :
             \A k \in 1..Len(aio'[c].begun) :
                aio'[c].event \in EventsOf(aio'[c].begun[k].seen)]_vars

\* A plain function called by emit_sync and a handler called for an
\* emit_async call, each with the triggering event in the history it reads,
\* and a call of each kind on an event without handler.
C16_Witness ==
    /\ Len(bus.event_history) = 2
    /\ \/ /\ busOut.op = "emit_sync"
          /\ Len(busOut.calls) > 0
          /\ \E c \in 1..Len(aio) : aio[c].hs = <<>> /\ aio[c].pc = "done"
       \/ /\ busOut.op = "emit_sync"
          /\ busOut.bound = <<>>
          /\ \E c \in 1..Len(aio) : Len(aio[c].begun) > 0

(***************************************************************************)
(* Properties of emit.                                                     *)
(***************************************************************************)
\* emit() has just returned in a running event loop: it made dispatch c,
\* and binding number reg is in the handler list of the event
EmitReturned(c, reg) ==
    /\ busOut.op = "emit"
    /\ Len(aio) = c
    /\ aio[c].pc = "scheduled"
    /\ aio[c].event.id = pubs
    /\ \E i \in 1..Len(DictGet(bus.handlers, aio[c].event.name, <<>>)) :
          bus.handlers[aio[c].event.name][i].reg = reg

\* Dispatch c has recorded its event and has called binding number reg once
DeliveredTo(c, reg) ==
    /\ c <= Len(aio)
    /\ aio[c].event \in EventsOf(bus.event_history)
    /\ Cardinality({k \in 1..Len(aio[c].begun) :
                       aio[c].hs[aio[c].begun[k].i].reg = reg}) = 1

\* C15: in a running event loop emit returns without waiting: it has neither
\* recorded the event nor called a handler.  Thereafter the event is
\* recorded in the history and every handler that was bound to it when emit
\* was called is called exactly once, and the dispatch ends without raising
\* whichever handlers raised.  (Without a running event loop emit is the
\* call self.emit_sync(event_name, data, source).)
C15_EmitDelivers ==
    /\ [][/\ busOut'.op = "emit" /\ aio' # aio =>
                /\ bus' = bus
                /\ busOut'.calls = <<>>
                /\ ~busOut'.raised
                /\ aio' = Append(aio, aio'[Len(aio')])
                /\ aio'[Len(aio')].pc = "scheduled"
                /\ aio'[Len(aio')].begun = <<>>
                /\ aio'[Len(aio')].event = [name |-> busOut'.name, id |-> pubs']
          /\ \A c \in 1..Len(aio) :
                /\ \A i \in 1..Len(aio'[c].hs) : TimesCalled(aio'[c], i) <= 1
                /\ aio'[c].pc = "done" => ~aio'[c].raised]_vars
    /\ \A c \in 1..MaxAsyncOps, reg \in 1..MaxAsyncOps :
          EmitReturned(c, reg) ~> DeliveredTo(c, reg)

(***************************************************************************)
(* Properties of get_history.                                              *)
(***************************************************************************)
\* The events of the history with the name asked for, all when none is given
Matching(history, event_name) ==
    SelectSeq(history, LAMBDA e : event_name = AnyEvent \/ e.name = event_name)

\* C17: for every limit >= 0 get_history(event_name, limit) returns at most
\* limit events: the most recent ones of the history, of the given name when
\* one is given, oldest first.
C17_HistoryWindow ==
    busOut.op = "get_history" =>
       LET matching == Matching(bus.event_history, busOut.name)
           n == Len(matching)
           k == IF busOut.limit < n THEN busOut.limit ELSE n
       IN  /\ Len(busOut.result) <= busOut.limit
           /\ busOut.result = SubSeq(matching, n - k + 1, n)

(***************************************************************************)
(* Properties of the hook bindings and of the execution counters.          *)
(***************************************************************************)
\* The bindings called by the last execution, in call order
CalledHooks == [i \in 1..Len(hmOut.log) |-> hmOut.log[i].b]

\* C18: after every sequence of register, unregister and clear_hooks calls
\* the binding list of every hook point is in descending priority, equal
\* priorities in registration order, and execute calls the bindings of its
\* hook point in that order.
C18_HookOrder ==
    /\ \A hp \in DOMAIN hm.hooks : HandlersOrdered(hm.hooks[hp])
    /\ hmOut.op = "execute" =>
          /\ hmOut.bound = DictGet(hm.hooks, hmOut.hp, <<>>)
          /\ CalledHooks = SubSeq(hmOut.bound, 1, Len(hmOut.log))
          /\ ~hmOut.raised => Len(hmOut.log) = Len(hmOut.bound)

\* An execution of three bindings: the one registered last, of the higher
\* priority, was called first, the two others in registration order.
C18_Witness ==
    /\ hmOut.op = "execute"
    /\ Len(hmOut.log) = 3
    /\ hmOut.log[1].b.reg > hmOut.log[3].b.reg
    /\ hmOut.log[1].b.p > hmOut.log[2].b.p
    /\ hmOut.log[2].b.p = hmOut.log[3].b.p
    /\ hmOut.log[2].b.reg < hmOut.log[3].b.reg

\* C19: an execute or execute_async call on a hook point with at least one
\* binding increases the counter of that hook point by exactly one (a
\* counter that is absent counts as zero), whether its callbacks returned or
\* raised and whether the call itself raised, and changes no other counter.
C19_CountsExecution ==
    [][hmOut'.op \in {"execute", "execute_async"} /\ execs' = execs + 1
         /\ Len(DictGet(hm.hooks, hmOut'.hp, <<>>)) >= 1
       => /\ hmOut'.hp \in DOMAIN hm'.hook_stats
          /\ hm'.hook_stats[hmOut'.hp] =
                DictGet(hm.hook_stats, hmOut'.hp, 0) + 1
          /\ \A hp \in HookPoints \ {hmOut'.hp} :
                /\ hp \in DOMAIN hm'.hook_stats <=> hp \in DOMAIN hm.hook_stats
                /\ DictGet(hm'.hook_stats, hp, 0) =
                      DictGet(hm.hook_stats, hp, 0)]_vars

\* An execution that raised has been counted on top of an earlier execution
\* of the same hook point, and the counter of the other hook point, which
\* had been executed before, still holds its count.
C19_Witness ==
    /\ hmOut.op \in {"execute", "execute_async"}
    /\ hmOut.raised
    /\ DictGet(hm.hook_stats, hmOut.hp, 0) = 2
    /\ \E hp \in DOMAIN hm.hook_stats \ {hmOut.hp} :
          /\ hm.hook_stats[hp] = 1
          /\ Len(DictGet(hm.hooks, hp, <<>>)) >= 1

\* C20: over register, unregister, clear_hooks, execute and execute_async
\* the counter of a hook point never decreases; only clear_stats resets it.
C20_CountersOnlyGrow ==
    [][hmOut'.op # "clear_stats" =>
          \A hp \in DOMAIN hm.hook_stats :
             /\ hp \in DOMAIN hm'.hook_stats
             /\ hm'.hook_stats[hp] >= hm.hook_stats[hp]]_vars

(***************************************************************************)
(* execute and execute_async side by side.                                 *)
(***************************************************************************)
\* The callbacks of a log, in call order
CallbacksOf(log) == [i \in 1..Len(log) |-> log[i].b.cb]

\* The keys of the dictionary a call returned (of the coroutine object when
\* it returned one)
Returned(r) == IF r.result = None THEN {} ELSE r.heap[r.result]

\* C21: on the same bindings and input execute_async calls the same
\* callbacks in the same order as execute, returns the same result, makes
\* the same counter change and raises in the same cases.
C21_AsyncSameAsSync ==
    [][hmOut'.op = "execute" /\ execs' = execs + 1 =>
          \E a \in {HookManager_execute_async(hm, hmOut'.hp, 1, <<{}>>)} :
             /\ CallbacksOf(a.log) = CallbacksOf(hmOut'.log)
             /\ a.raised = hmOut'.raised
             /\ a.hm.hook_stats = hm'.hook_stats
             /\ Returned(a) = Returned(hmOut')
             /\ (a.result = 1) <=> (hmOut'.result = 1)]_vars

(***************************************************************************)
(* Frame of off.                                                           *)
(***************************************************************************)
\* The bindings of a list whose handler is not h, in list order
Without(hs, h) == SelectSeq(hs, LAMBDA b : b.cb # h)

\* C22: off(event_name, handler) removes every binding of the handler from
\* the list of the event and keeps the other bindings of the list in their
\* order; the lists of the other events and the history are unchanged, and
\* when the event or the handler is not bound the bus is unchanged.
C22_OffRemovesOnlyHandler ==
    [][busOut'.op = "off" =>
          /\ DOMAIN bus'.handlers = DOMAIN bus.handlers
          /\ \A e \in DOMAIN bus.handlers :
                bus'.handlers[e] =
                   IF e = busOut'.name
                   THEN Without(bus.handlers[e], busOut'.handler)
                   ELSE bus.handlers[e]
          /\ bus'.event_history = bus.event_history
          /\ bus'.max_history = bus.max_history
          /\ (busOut'.name \notin DOMAIN bus.handlers
                \/ \A k \in 1..Len(bus.handlers[busOut'.name]) :
                      bus.handlers[busOut'.name][k].cb # busOut'.handler)
             => bus' = bus]_vars

\* off has removed the binding of one handler from a list of two and left
\* the binding of the other handler and a recorded event in place.
C22_Witness ==
    /\ busOut.op = "off"
    /\ Len(busOut.bound) = 2
    /\ busOut.bound[1].cb = busOut.handler
    /\ busOut.bound[2].cb # busOut.handler
    /\ bus.handlers[busOut.name] = <<busOut.bound[2]>>
    /\ Len(bus.event_history) = 1

(***************************************************************************)
(* Properties of the plugin lifecycle.                                     *)
(***************************************************************************)
\* C23: enable_plugin(name) and disable_plugin(name) set the enabled flag of
\* the metadata of the named plugin and change nothing else: the plugin
\* table, the capability registries, the handler lists and the hook lists
\* stay as they are, and nothing at all changes for a name that is not
\* registered.  The hook callbacks of a disabled plugin are still called.
C23_ToggleChangesFlagOnly ==
    /\ [][mgrOut'.op \in {"enable_plugin", "disable_plugin"} =>
             LET old == managers[mgrOut'.m]
                 new == managers'[mgrOut'.m]
             IN  /\ Len(managers') = Len(managers)
                 /\ \A m \in 1..Len(managers) :
                       m # mgrOut'.m => managers'[m] = managers[m]
                 /\ new.plugins = old.plugins
                 /\ new.analyzers = old.analyzers
                 /\ new.extractors = old.extractors
                 /\ new.evaluators = old.evaluators
                 /\ new.intelligence_plugins = old.intelligence_plugins
                 /\ new.events = old.events
                 /\ new.hooks = old.hooks
                 /\ Len(new.metadata) = Len(old.metadata)
                 /\ \A i \in 1..Len(old.metadata) :
                       /\ new.metadata[i].k = old.metadata[i].k
                       /\ new.metadata[i].v =
                             IF old.metadata[i].k = mgrOut'.name
                             THEN [old.metadata[i].v EXCEPT !.enabled =
                                      (mgrOut'.op = "enable_plugin")]
                             ELSE old.metadata[i].v
                 /\ mgrOut'.name \notin ODKeys(old.plugins) =>
                       managers' = managers]_vars
    /\ [](mgrOut.op = "execute" =>
             LET bound == DictGet(managers[mgrOut.m].hooks.hooks,
                                  PluginHookPoint, <<>>)
             IN  /\ Len(mgrOut.log) = Len(bound)
                 /\ \A k \in 1..Len(bound) : mgrOut.log[k].b = bound[k]
                 /\ \A i \in 1..Len(managers[mgrOut.m].metadata) :
                       LET md == managers[mgrOut.m].metadata[i].v
                       IN  (\E k \in 1..Len(bound) : bound[k].reg = md.inst)
                              => \E k \in 1..Len(mgrOut.log) :
                                    mgrOut.log[k].b.reg = md.inst)

\* The hook callback of a plugin has been called while the plugin is
\* disabled.
C23_Witness ==
    /\ mgrOut.op = "execute"
    /\ \E i \in 1..Len(managers[mgrOut.m].metadata) :
          /\ ~managers[mgrOut.m].metadata[i].v.enabled
          /\ \E k \in 1..Len(mgrOut.log) :
                mgrOut.log[k].b.reg = managers[mgrOut.m].metadata[i].v.inst

\* C24: shutdown_all() does not raise and calls shutdown() exactly once on
\* every plugin of the table, enabled or disabled, also on the plugins after
\* one whose shutdown() raised.
C24_ShutdownReachesAll ==
    mgrOut.op = "shutdown_all" =>
       LET plugins == managers[mgrOut.m].plugins
       IN  /\ ~mgrOut.raised
           /\ Len(mgrOut.log) = Len(plugins)
           /\ \A i \in 1..Len(plugins) :
                 /\ mgrOut.log[i].name = plugins[i].k
                 /\ mgrOut.log[i].inst = plugins[i].v
           /\ \A i, j \in 1..Len(mgrOut.log) :
                 mgrOut.log[i].inst = mgrOut.log[j].inst => i = j

\* A shutdown_all in which shutdown() of the first plugin raised and the
\* second plugin, which is disabled, was shut down after it.
C24_Witness ==
    /\ mgrOut.op = "shutdown_all"
    /\ Len(mgrOut.log) = 2
    /\ mgrOut.log[1].probe = "raise"
    /\ mgrOut.log[2].probe = "ok"
    /\ ~ODGet(managers[mgrOut.m].metadata, mgrOut.log[2].name).enabled
    /\ ODGet(managers[mgrOut.m].metadata, mgrOut.log[1].name).enabled

\* C25: once shutdown_all() has called shutdown() on a plugin, the manager
\* does not call that plugin again (neither shutdown() in a later
\* shutdown_all() nor its probe in health_check()), and enable_plugin and
\* disable_plugin no longer change its enabled flag.
C25_ShutdownIsTerminal ==
    [][mgrOut.op = "shutdown_all" /\ mgrOut'.m = mgrOut.m =>
          /\ mgrOut'.op \in {"shutdown_all", "health_check"} =>
                \A k \in 1..Len(mgrOut'.log), j \in 1..Len(mgrOut.log) :
                   mgrOut'.log[k].inst # mgrOut.log[j].inst
          /\ mgrOut'.op \in {"enable_plugin", "disable_plugin"}
                /\ (\E j \in 1..Len(mgrOut.log) :
                       mgrOut.log[j].name = mgrOut'.name)
             => managers' = managers]_vars

(***************************************************************************)
(* Properties of publishing from several threads.                          *)
(***************************************************************************)
\* C26: when several threads publish on one bus, the history never holds
\* more than max_history events, and once the publishes have returned it
\* holds the last max_history events recorded: none of them is lost.
C26_HistoryMutationsExclusive ==
    /\ Len(bus.event_history) <= bus.max_history
    /\ (\A c \in 1..Len(aio) : aio[c].pc = "done") =>
          \A k \in 1..Len(recorded) :
             k > Len(recorded) - bus.max_history =>
                recorded[k] \in EventsOf(bus.event_history)

\* Every publish has returned and an event that was recorded among the last
\* max_history is not in the history, which is not longer than max_history.
C26_LostEvent ==
    /\ \A c \in 1..Len(aio) : aio[c].origin = "thread" /\ aio[c].pc = "done"
    /\ Len(bus.event_history) <= bus.max_history
    /\ \E k \in 1..Len(recorded) :
          /\ k > Len(recorded) - bus.max_history
          /\ recorded[k] \notin EventsOf(bus.event_history)

(***************************************************************************)
(* Properties of register_plugin.                                          *)
(***************************************************************************)
\* C27: a register_plugin call in which initialize raised leaves the
\* managers as they were: the capability registries, the handler lists and
\* the hook lists are the same as before the call.
C27_FailedInitLeavesNoTrace ==
    [][mgrOut'.op = "register_plugin"
         /\ mgrOut'.log[1].outcome = "init_raised"
       => \A m \in 1..Len(managers) :
             /\ managers'[m].analyzers = managers[m].analyzers
             /\ managers'[m].extractors = managers[m].extractors
             /\ managers'[m].evaluators = managers[m].evaluators
             /\ managers'[m].intelligence_plugins =
                   managers[m].intelligence_plugins
             /\ managers'[m].events.handlers = managers[m].events.handlers
             /\ managers'[m].hooks.hooks = managers[m].hooks.hooks]_vars

(***************************************************************************)
(* Handlers that call the bus that is dispatching to them.  emit_sync      *)
(* binds its local name handlers to the list object stored in              *)
(* self.handlers and iterates it by position; on appends to that object    *)
(* and sorts it in place, off stores a new list and leaves the object of   *)
(* the running loop alone, and emit_sync called by a handler runs a whole  *)
(* dispatch of its own before the handler returns.                         *)
(***************************************************************************)
\* "publisher" calls emit_sync of PublishedEvent, as the document_uploaded
\* handlers of the plugins publish their completion event.
Publishers == {"publisher"}

\* Handlers given to on by a caller: "subscriber" binds "f2" to the event it
\* is handling unless "f2" is bound to it already; "unsubscriber" unbinds
\* "f1" from the event it is handling.
ReentrantHandlers == {"subscriber", "unsubscriber"} \cup Publishers

\* The event a publisher emits.  A publisher is bound to other events only:
\* bound to this one it would call itself without end.
PublishedEvent == "e2"

IsBound(b, event_name, handler) ==
    \E j \in DOMAIN DictGet(b.handlers, event_name, <<>>) :
        DictGet(b.handlers, event_name, <<>>)[j].cb = handler

\* What the calls made during one outermost emit_sync thread through: the
\* bus, the id of the next event, the stamp of the next binding and the
\* events handed to _add_to_history so far.
DispatchState(b, nid, stamp, events) ==
    [bus |-> b, nid |-> nid, stamp |-> stamp, events |-> events]

\* The list object the running loop iterates after a handler body has run:
\* while it is the object stored in self.handlers (same), the changes on
\* made to it are seen by the loop; a list stored by off is another object.
ListOfLoop(local, same, after, event_name) ==
    IF same THEN after.handlers[event_name] ELSE local

RECURSIVE HandlerBody(_, _, _, _)
RECURSIVE DispatchLoop(_, _, _, _, _, _)
RECURSIVE EmitSyncFrom(_, _, _)

\* The state after the body of handler h has run for an event: p is the
\* priority a subscriber passes to on
HandlerBody(st, event_name, h, p) ==
    CASE h = "subscriber" /\ ~IsBound(st.bus, event_name, "f2") ->
           [st EXCEPT !.bus = EventBus_on(st.bus, event_name, "f2", p,
                                          st.stamp).bus,
                      !.stamp = st.stamp + 1]
      [] h = "unsubscriber" ->
           [st EXCEPT !.bus = EventBus_off(st.bus, event_name, "f1").bus]
      [] h \in Publishers -> EmitSyncFrom(st, PublishedEvent, p).st
      [] OTHER -> st

\* The for loop of emit_sync from position i of the list object local.  Each
\* call is logged with the history the handler can read when it is called.
DispatchLoop(st, event_name, local, same, i, p) ==
    IF i > Len(local) THEN [st |-> st, calls |-> <<>>]
    ELSE \* handler(data)
         LET st2 == HandlerBody(st, event_name, local[i].cb, p)
             stored == local[i].cb = "unsubscriber"
             rest == DispatchLoop(st2, event_name,
                        ListOfLoop(local, same /\ ~stored, st2.bus,
                                   event_name),
                        same /\ ~stored, i + 1, p)
         IN  [st |-> rest.st,
              calls |-> <<[b |-> local[i], threw |-> FALSE,
                           seen |-> st.bus.event_history]>> \o rest.calls]

\* emit_sync(event_name, data) called with the state st, by the host or by
\* a handler
EmitSyncFrom(st, event_name, p) ==
    LET event == [name |-> event_name, id |-> st.nid]
        b1 == EventBus_add_to_history(st.bus, event)
        st1 == DispatchState(b1, st.nid + 1, st.stamp,
                             Append(st.events, event))
        handlers == DictGet(b1.handlers, event_name, <<>>)
        run == DispatchLoop(st1, event_name, handlers, TRUE, 1, p)
    IN  IF handlers = <<>>
        THEN [st |-> st1, bound |-> <<>>, calls |-> <<>>]
        ELSE [st |-> run.st, bound |-> handlers, calls |-> run.calls]

\* EventBus.emit_sync with handlers that may call on, off and emit_sync:
\* the report of the outermost call and the state the calls leave
EventBus_emit_sync_reentrant(b, event, p, stamp) ==
    LET run == EmitSyncFrom(DispatchState(b, event.id, stamp, <<>>),
                            event.name, p)
    IN  [r |-> BusResult(run.st.bus, "emit_sync", event.name, FALSE,
                         run.bound, run.calls),
         st |-> run.st]

\* on(event_name, handler, priority), at most n times, with a plain handler
\* or one that calls the bus; a publisher is not bound to the event it emits
OnReentrant(n) ==
    /\ subs < n
    /\ \E e \in EventNames, h \in {"f1"} \cup ReentrantHandlers,
          p \in {NORMAL, HIGH} :
          /\ h \in Publishers => e # PublishedEvent
          /\ LET r == EventBus_on(bus, e, h, p, subs + 1)
             IN  /\ bus' = r.bus
                 /\ busOut' = OutOf(r)
    /\ subs' = subs + 1
    /\ UNCHANGED <<pubs, recorded, aio>>
    /\ UNCHANGED <<hookVars, mgrVars>>

\* emit_sync(event_name, data), at most n times, to handlers that may call
\* the bus; a subscriber passes LOW or HIGH
EmitSyncReentrant(n) ==
    /\ pubs < n
    /\ \E e \in EventNames, p \in {LOW, HIGH} :
          \E x \in {EventBus_emit_sync_reentrant(
                       bus, [name |-> e, id |-> pubs + 1], p, subs + 1)} :
             /\ bus' = x.r.bus
             /\ busOut' = OutOf(x.r)
             /\ recorded' = recorded \o x.st.events
             /\ subs' = x.st.stamp - 1
             /\ pubs' = x.st.nid - 1
    /\ UNCHANGED aio
    /\ UNCHANGED <<hookVars, mgrVars>>

NextReentrant ==
    \/ OnReentrant(SubsLeft)
    \/ EmitSyncReentrant(PubsLeft)

SpecReentrant == Init /\ [][NextReentrant]_vars

\* C28: a dispatch of emit_sync invokes every binding that was in the list
\* of the event when the dispatch started exactly once, and no binding
\* twice, whatever on and off calls its handlers make for that event.
C28_DispatchOverStartBindings ==
    busOut.op = "emit_sync" =>
       /\ \A i \in DOMAIN busOut.bound :
             Cardinality({j \in DOMAIN busOut.calls :
                            busOut.calls[j].b = busOut.bound[i]}) = 1
       /\ \A j, k \in DOMAIN busOut.calls :
             busOut.calls[j].b = busOut.calls[k].b => j = k

\* C29: register_plugin emits 'plugin_loaded' once for a plugin that enters
\* the plugin table and not at all for a rejected duplicate or for a plugin
\* whose initialize raised; the handlers of the event find the plugin in the
\* plugin table and in the metadata table with loaded_at set.
C29_LoadedEmittedOnceAfterStore ==
    [][mgrOut'.op = "register_plugin" =>
         LET m == mgrOut'.m
             e == mgrOut'.log[1]
             entered == /\ e.name \notin ODKeys(managers[m].plugins)
                        /\ e.name \in ODKeys(managers'[m].plugins)
             event == [name |-> "plugin_loaded", id |-> e.inst]
         IN  /\ Len(mgrOut'.emits) = IF entered THEN 1 ELSE 0
             /\ e.outcome \in {"rejected", "init_raised"} => ~entered
             /\ managers'[m].events.event_history =
                   IF entered
                   THEN TrimHistory(
                           Append(managers[m].events.event_history, event),
                           managers[m].events.max_history)
                   ELSE managers[m].events.event_history
             /\ \A k \in DOMAIN mgrOut'.emits :
                   /\ mgrOut'.emits[k].event = event
                   /\ e.name \in ODKeys(mgrOut'.emits[k].table.plugins)
                   /\ ODGet(mgrOut'.emits[k].table.plugins, e.name) = e.inst
                   /\ e.name \in ODKeys(mgrOut'.emits[k].table.metadata)
                   /\ ODGet(mgrOut'.emits[k].table.metadata, e.name).loaded_at
                 ]_vars

\* A handler of 'plugin_loaded' was called for a plugin that entered the
\* table of a manager that already held another plugin.
C29_Witness ==
    /\ mgrOut.op = "register_plugin"
    /\ Len(mgrOut.emits) = 1
    /\ mgrOut.emits[1].calls # <<>>
    /\ mgrOut.log[1].outcome = "loaded"
    /\ Len(managers[mgrOut.m].plugins) = 2
    /\ ODGet(managers[mgrOut.m].plugins, mgrOut.log[1].name)
          = mgrOut.log[1].inst

(***************************************************************************)
(* One caller publishing with emit, emit_sync and emit_async.  The caller  *)
(* is a coroutine or plain code; while it awaits emit_async it makes no    *)
(* other call.  Events carry the number of their publish call as id.       *)
(***************************************************************************)
CallerRunning ==
    \A c \in 1..Len(aio) : aio[c].origin = "await" => aio[c].pc = "done"

NextOrder ==
    \/ OnHandler(SubsLeft, {"f1"} \cup Coroutines, {NORMAL})
    \/ (CallerRunning /\ Emit(PubsLeft))
    \/ (CallerRunning /\ EmitSync(PubsLeft))
    \/ (CallerRunning /\ AwaitEmitAsync(PubsLeft))
    \/ StartScheduled
    \/ HandlerStep

SpecOrder == Init /\ [][NextOrder]_vars

\* C30: the events of the history are in the order of their publish calls:
\* an event published earlier is never recorded after one published later.
C30_HistoryInPublishOrder ==
    \A i, j \in DOMAIN bus.event_history :
        i < j => bus.event_history[i].id < bus.event_history[j].id

====
